---- MODULE Spec2Model ----
(***************************************************************************)
(* A model of the sandooo sandwich agent: the strategy orchestrator        *)
(* (run_sandwich_strategy) with the flash-loan main dish, the amount-in    *)
(* optimizer (Sandwich::optimize), the flash-loan blob assembly            *)
(* (create_flashloan_sandwich_tx) and the classical bundle builder         *)
(* (Executor::create_sando_bundle).                                        *)
(*                                                                         *)
(* Token amounts of the orchestrator are counted in units of 10^16 wei     *)
(* (amount_in 10^20 wei = 10000 units, fee 9*10^16 wei = 9 units); the     *)
(* optimizer's revenues are counted in units of 10^14 wei.                 *)
(***************************************************************************)
EXTENDS Integers, Sequences, FiniteSets, TLC

\* ------------------------------------------------------------------ bounds
NumTx == 2
MaxBlock == 4
MaxPairs == 2
MaxPromising == 2

\* ------------------------------------------------------- program constants
PruneAge == 3
FlushAge == 5
BundleIdCapacity == 30
FLASHLOAN_FEE_BASIS_POINTS == 9
BASIS_POINTS_DIVISOR == 10000
force_check == TRUE

\* ------------------------------------------------------------ input values
Hashes == 1..NumTx
BlockNumbers == 0..MaxBlock
\* base_fee_per_gas of the block with number n
BaseFeeOf(n) == 1 + (n % 2)
None == -1
\* a pending transaction as the event carries it: transaction_type, gas_price and
\* max_fee_per_gas are options
TxShapes ==
    {[transaction_type |-> 0, gas_price |-> 1, max_fee_per_gas |-> None],
     [transaction_type |-> 2, gas_price |-> None, max_fee_per_gas |-> 1],
     [transaction_type |-> None, gas_price |-> 1, max_fee_per_gas |-> None]}
Receipts == {"some", "none", "err"}
\* the Sandwich values the appetizer may add: amount_in and the optimized max_revenue
Sandwiches ==
    {[amount_in |-> 10000, max_revenue |-> 20, optimized |-> TRUE],
     [amount_in |-> 15000, max_revenue |-> 13, optimized |-> TRUE]}
SimRevenues == {0, 9, 10}
\* how the verifying BatchSandwich::simulate of main_dish_v3 ends: Ok with a revenue,
\* Err, or an abort of the task (the unwrap of simulation.rs line 423)
SimResults ==
    [outcome : {"ok"}, revenue : SimRevenues] \cup [outcome : {"err", "abort"}, revenue : {0}]

\* pc .. queue are the orchestrator; watch, sent and last are the observer: with
\* watch, last records what the last step consumed and did and sent counts the
\* bundles sent per id, without it last names the kind of the last step only
VARIABLES pc, new_block, pending_txs, promising_sandwiches, simulated_bundle_ids,
          queue, watch, sent, last
\* one call of Sandwich::optimize, of the flash-loan fee gate of main_dish_v3, of
\* create_flashloan_sandwich_tx and of create_sando_bundle: its arguments, its
\* position and its result
VARIABLES optimize_call, gate_call, flashloan_call, bundle_call
\* one call of one of the other functions of the program, named by call.fn
VARIABLE call

ovars == <<pc, new_block, pending_txs, promising_sandwiches, simulated_bundle_ids,
           queue, watch, sent, last>>
cvars == <<optimize_call, gate_call, flashloan_call, bundle_call, call>>
vars == <<ovars, cvars>>

Observe(record) == IF watch THEN record ELSE [kind |-> record.kind]

\* ----------------------------------------------------------------- helpers
Restrict(f, S) == [x \in S |-> f[x]]

\* HashMap::new()
EmptyMap == [x \in {} |-> 0]

\* HashMap::insert
Insert(f, k, v) == [x \in DOMAIN f \cup {k} |-> IF x = k THEN v ELSE f[x]]

unwrap_or_default(opt) == IF opt = None THEN 0 ELSE opt

\* format!("{:?}", tx_hash): the hash printed as a 0x-prefixed hex string
bundle_id(tx_hash) == <<"0x", tx_hash>>

\* BoundedVecDeque::push_back: at capacity the oldest id is dropped
push_back(deque, id) ==
    IF Len(deque) >= BundleIdCapacity THEN Append(Tail(deque), id) ELSE Append(deque, id)

Contains(deque, id) == \E i \in 1..Len(deque) : deque[i] = id

\* Executor::calculate_flashloan_fee
calculate_flashloan_fee(amount) ==
    (amount * FLASHLOAN_FEE_BASIS_POINTS) \div BASIS_POINTS_DIVISOR

\* ------------------------------------------------------------ Block event
\* the retain closure of the Block arm: an entry is kept while it is younger than
\* PruneAge blocks
KeepPending_C1(head, added_block) == (head - added_block) < FlushAge
KeepPending(head, added_block) == (head - added_block) < PruneAge

\* U64 subtraction aborts on underflow
PruneAborts(head, pt) == \E h \in DOMAIN pt : pt[h].added_block > head

RemoveConfirmed(pt, txs) == Restrict(pt, DOMAIN pt \ txs)

PruneOld(head, pt) ==
    Restrict(pt, {h \in DOMAIN pt : KeepPending(head, pt[h].added_block)})

\* promising_sandwiches.retain(|h, _| pending_txs.contains_key(h))
PrunePromising_C9(ps, pt) == ps
PrunePromising(ps, pt) == Restrict(ps, DOMAIN ps \cap DOMAIN pt)

\* the sweep at the end of every loop iteration
FlushOld(head, pt) ==
    LET cutoff_block == IF head > FlushAge THEN head - FlushAge ELSE 0
    IN  Restrict(pt, {h \in DOMAIN pt : ~(pt[h].added_block < cutoff_block)})

\* a panic in run_sandwich_strategy: the task unwinds and its locals are dropped
AbortTask ==
    /\ pc' = "aborted"
    /\ new_block' = [block_number |-> 0, base_fee |-> 0]
    /\ pending_txs' = EmptyMap
    /\ promising_sandwiches' = EmptyMap
    /\ simulated_bundle_ids' = <<>>
    /\ queue' = <<>>
    /\ last' = [kind |-> "abort"]
    /\ UNCHANGED <<watch, sent>>

HandleBlock(n, txs, body) ==
    /\ pc = "idle"
    /\ UNCHANGED cvars
    /\ IF body # "ok" \/ PruneAborts(n, RemoveConfirmed(pending_txs, txs))
       THEN AbortTask
       ELSE LET pruned == PruneOld(n, RemoveConfirmed(pending_txs, txs))
            IN  /\ new_block' = [block_number |-> n, base_fee |-> BaseFeeOf(n)]
                /\ pending_txs' = FlushOld(n, pruned)
                /\ promising_sandwiches' = PrunePromising(promising_sandwiches, pruned)
                /\ pc' = "idle"
                /\ last' = Observe([kind |-> "block", txs |-> txs])
                /\ UNCHANGED <<simulated_bundle_ids, queue, watch, sent>>

\* a Block event whose block body is fetched
BlockEvent ==
    \E n \in BlockNumbers, txs \in SUBSET Hashes : HandleBlock(n, txs, "ok")

\* a Block event whose block body cannot be fetched (an error, or no block)
BlockEventNoBody ==
    \E n \in BlockNumbers, body \in {"none", "err"} : HandleBlock(n, {}, body)

\* the receiver lagged: only the sweep runs
RecvError ==
    /\ pc = "idle"
    /\ pending_txs' = FlushOld(new_block.block_number, pending_txs)
    /\ last' = [kind |-> "lagged"]
    /\ UNCHANGED <<pc, new_block, promising_sandwiches, simulated_bundle_ids, queue,
                   watch, sent>>
    /\ UNCHANGED cvars

\* ---------------------------------------------- PendingTransaction event
\* the receipt lookup: a receipt means the transaction is confirmed
AfterReceipt(pt, tx_hash, receipt) ==
    IF receipt = "some" THEN Restrict(pt, DOMAIN pt \ {tx_hash}) ELSE pt

victim_gas_price(tx) ==
    IF tx.transaction_type = 0 THEN unwrap_or_default(tx.gas_price)
    ELSE IF tx.transaction_type = 2 THEN unwrap_or_default(tx.max_fee_per_gas)
    ELSE 0

\* should_add after the receipt lookup and the gas gate
should_add(tx, receipt, base_fee) ==
    IF tx.transaction_type \in {0, 2}
    THEN victim_gas_price(tx) >= base_fee
    ELSE receipt = "none"

\* whether extract_swap_info is called
RunsExtractor(tx, receipt, base_fee) == should_add(tx, receipt, base_fee) \/ force_check

\* appetizer: every touched pair whose optimization is promising adds one Sandwich
\* to promising_sandwiches[tx_hash]
appetizer(ps, tx_hash, news) ==
    IF news = <<>> THEN ps
    ELSE Insert(ps, tx_hash, (IF tx_hash \in DOMAIN ps THEN ps[tx_hash] ELSE <<>>) \o news)

RECURSIVE SeqsUpTo(_, _)
SeqsUpTo(S, n) ==
    IF n = 0 THEN {<<>>}
    ELSE LET shorter == SeqsUpTo(S, n - 1)
         IN  shorter \cup {Append(q, x) : q \in {r \in shorter : Len(r) = n - 1}, x \in S}

\* the lists of Sandwiches one appetizer call may add: at most one per touched pair
News == SeqsUpTo(Sandwiches, MaxPairs)

RECURSIVE TotalPromising(_, _)
TotalPromising(ps, D) ==
    IF D = {} THEN 0
    ELSE LET h == CHOOSE x \in D : TRUE
         IN  Len(ps[h]) + TotalPromising(ps, D \ {h})

\* ------------------------------------------------------------ main_dish_v3
\* the first loop of main_dish_v3 over one map entry: the sandwiches whose id was
\* not simulated yet, that are optimized and whose revenue exceeds the fee
RECURSIVE Collect(_, _, _, _)
Collect(tx_hash, sandwiches, i, ids) ==
    IF i > Len(sandwiches) THEN <<>>
    ELSE LET sandwich == sandwiches[i]
             flashloan_fee == calculate_flashloan_fee(sandwich.amount_in)
             rest == Collect(tx_hash, sandwiches, i + 1, ids)
         IN  IF Contains(ids, bundle_id(tx_hash)) THEN rest
             ELSE IF ~sandwich.optimized THEN rest
             ELSE IF ~(sandwich.max_revenue > flashloan_fee) THEN rest
             ELSE <<[tx_hash |-> tx_hash,
                     amount_in |-> sandwich.amount_in,
                     max_revenue |-> sandwich.max_revenue - flashloan_fee,
                     score |-> sandwich.max_revenue - flashloan_fee]>> \o rest

RECURSIVE CollectAll(_, _, _)
CollectAll(ps, order, ids) ==
    IF order = <<>> THEN <<>>
    ELSE Collect(Head(order), ps[Head(order)], 1, ids) \o CollectAll(ps, Tail(order), ids)

\* sort_by score, descending; the sort is stable
RECURSIVE InsertByScore(_, _)
InsertByScore(sorted, x) ==
    IF sorted = <<>> THEN <<x>>
    ELSE IF Head(sorted).score >= x.score
         THEN <<Head(sorted)>> \o InsertByScore(Tail(sorted), x)
         ELSE <<x>> \o sorted

RECURSIVE SortByScore(_)
SortByScore(s) ==
    IF s = <<>> THEN <<>>
    ELSE InsertByScore(SortByScore(SubSeq(s, 1, Len(s) - 1)), s[Len(s)])

\* the orders in which a HashMap may iterate over its keys
IterationOrders(D) ==
    {o \in [1..Cardinality(D) -> D] : \A i, j \in 1..Cardinality(D) : i # j => o[i] # o[j]}

\* the sandwich_ingredients of one main_dish_v3 call, sorted
Ingredients(ps, order, ids) ==
    IF DOMAIN ps = {} THEN <<>> ELSE SortByScore(CollectAll(ps, order, ids))

HandlePending(tx_hash, tx, receipt, swaps, news, order) ==
    /\ pc = "idle"
    /\ LET base_fee == new_block.base_fee
           pt1 == AfterReceipt(pending_txs, tx_hash, receipt)
           ran == RunsExtractor(tx, receipt, base_fee)
           swap_info == IF ran THEN swaps ELSE 0
           record == [kind |-> "pending", tx_hash |-> tx_hash, tx |-> tx,
                      mined |-> receipt = "some", extractor |-> ran,
                      stored |-> swap_info > 0, appetizer |-> swap_info > 0]
       IN  IF swap_info > 0
           THEN LET pt2 == Insert(pt1, tx_hash,
                                  [added_block |-> new_block.block_number])
                    ps2 == appetizer(promising_sandwiches, tx_hash, news)
                    todo == Ingredients(ps2, order, simulated_bundle_ids)
                IN  /\ promising_sandwiches' = ps2
                    /\ queue' = todo
                    /\ last' = Observe(record)
                    /\ IF todo = <<>>
                       THEN /\ pc' = "idle"
                            /\ pending_txs' = FlushOld(new_block.block_number, pt2)
                       ELSE /\ pc' = "dish"
                            /\ pending_txs' = pt2
           ELSE /\ pending_txs' = FlushOld(new_block.block_number, pt1)
                /\ last' = Observe(record)
                /\ UNCHANGED <<pc, promising_sandwiches, queue>>
    /\ UNCHANGED <<new_block, simulated_bundle_ids, watch, sent>>
    /\ UNCHANGED cvars

\* a PendingTransaction event in which no swap is extracted
PendingTransactionNoSwap ==
    \E tx_hash \in Hashes, tx \in TxShapes, receipt \in Receipts :
        HandlePending(tx_hash, tx, receipt, 0, <<>>, <<>>)

\* a PendingTransaction event in which extract_swap_info finds swaps: the appetizer
\* adds news, main_dish_v3 iterates over the map in order
PendingTransactionSwap ==
    \E tx_hash \in Hashes, tx \in TxShapes, receipt \in Receipts, news \in News :
        LET ps2 == appetizer(promising_sandwiches, tx_hash, news)
            swaps == IF news = <<>> THEN 1 ELSE Len(news)
        IN  /\ TotalPromising(ps2, DOMAIN ps2) <= MaxPromising
            /\ \E order \in IterationOrders(DOMAIN ps2) :
                   HandlePending(tx_hash, tx, receipt, swaps, news, order)

\* the ids recorded since which a count of sent bundles is kept: an id that left
\* the deque starts anew
SentAfterPush(s, deque) ==
    [h \in Hashes |-> IF Contains(deque, bundle_id(h)) THEN s[h] ELSE 0]

\* the gates of main_dish_v3 on the verified revenue: it must be positive and exceed
\* the flash-loan fee of the borrowed amount
FeeGate_C7(revenue, amount_in) ==
    LET flashloan_fee == calculate_flashloan_fee(amount_in)
    IN  IF revenue <= 0
        THEN [stage |-> "no_revenue", adjusted_revenue |-> 0]
        ELSE IF revenue >= flashloan_fee
             THEN [stage |-> "accepted", adjusted_revenue |-> revenue - flashloan_fee]
             ELSE [stage |-> "fee_reject", adjusted_revenue |-> 0]
FeeGate(revenue, amount_in) ==
    LET flashloan_fee == calculate_flashloan_fee(amount_in)
    IN  IF revenue <= 0
        THEN [stage |-> "no_revenue", adjusted_revenue |-> 0]
        ELSE IF revenue > flashloan_fee
             THEN [stage |-> "accepted", adjusted_revenue |-> revenue - flashloan_fee]
             ELSE [stage |-> "fee_reject", adjusted_revenue |-> 0]

DishStep_C38(sim, bundle) ==
    /\ pc = "dish"
    /\ UNCHANGED cvars
    /\ LET ingredients == Head(queue)
           tx_hash == ingredients.tx_hash
           amount_in == ingredients.amount_in
           ids == push_back(simulated_bundle_ids, bundle_id(tx_hash))
           gate == FeeGate(sim.revenue, amount_in)
           stage ==
               IF sim.outcome = "err" THEN "simulate_err"
               ELSE IF gate.stage # "accepted" THEN gate.stage
               ELSE IF bundle = "err" THEN "bundle_err"
               ELSE "sent"
           counted == SentAfterPush(sent, ids)
       IN  IF sim.outcome = "abort"
           THEN AbortTask
           ELSE /\ simulated_bundle_ids' = ids
                /\ sent' = IF ~watch THEN sent
                           ELSE IF stage = "sent"
                           THEN [counted EXCEPT ![tx_hash] = @ + 1]
                           ELSE counted
                /\ last' = Observe([kind |-> "dish", tx_hash |-> tx_hash,
                                    amount_in |-> amount_in, stage |-> stage,
                                    revenue |-> IF stage \in {"not_pending", "simulate_err"}
                                                THEN 0 ELSE sim.revenue,
                                    adjusted_revenue |-> IF stage \in {"bundle_err", "sent"}
                                                         THEN gate.adjusted_revenue ELSE 0])
                /\ queue' = Tail(queue)
                /\ IF Tail(queue) = <<>>
                   THEN /\ pc' = "idle"
                        /\ pending_txs' = FlushOld(new_block.block_number, pending_txs)
                   ELSE UNCHANGED <<pc, pending_txs>>
                /\ UNCHANGED <<new_block, promising_sandwiches, watch>>

\* the second loop of main_dish_v3, one ingredient: sim is how the verifying
\* BatchSandwich::simulate ends, bundle the result of create_flashloan_sando_bundle
DishStep(sim, bundle) ==
    /\ pc = "dish"
    /\ UNCHANGED cvars
    /\ LET ingredients == Head(queue)
           tx_hash == ingredients.tx_hash
           amount_in == ingredients.amount_in
           ids == push_back(simulated_bundle_ids, bundle_id(tx_hash))
           gate == FeeGate(sim.revenue, amount_in)
           stage ==
               IF tx_hash \notin DOMAIN pending_txs THEN "not_pending"
               ELSE IF sim.outcome = "err" THEN "simulate_err"
               ELSE IF gate.stage # "accepted" THEN gate.stage
               ELSE IF bundle = "err" THEN "bundle_err"
               ELSE "sent"
           counted == SentAfterPush(sent, ids)
       IN  IF tx_hash \in DOMAIN pending_txs /\ sim.outcome = "abort"
           THEN AbortTask
           ELSE /\ simulated_bundle_ids' = ids
                /\ sent' = IF ~watch THEN sent
                           ELSE IF stage = "sent"
                           THEN [counted EXCEPT ![tx_hash] = @ + 1]
                           ELSE counted
                /\ last' = Observe([kind |-> "dish", tx_hash |-> tx_hash,
                                    amount_in |-> amount_in, stage |-> stage,
                                    revenue |-> IF stage \in {"not_pending", "simulate_err"}
                                                THEN 0 ELSE sim.revenue,
                                    adjusted_revenue |-> IF stage \in {"bundle_err", "sent"}
                                                         THEN gate.adjusted_revenue ELSE 0])
                /\ queue' = Tail(queue)
                /\ IF Tail(queue) = <<>>
                   THEN /\ pc' = "idle"
                        /\ pending_txs' = FlushOld(new_block.block_number, pending_txs)
                   ELSE UNCHANGED <<pc, pending_txs>>
                /\ UNCHANGED <<new_block, promising_sandwiches, watch>>

MainDishStep ==
    \E sim \in SimResults, bundle \in {"ok", "err"} : DishStep(sim, bundle)

\* a PendingTransaction event in which swaps are extracted and the appetizer finds
\* no promising sandwich
PendingTransactionUnpromising ==
    \E tx_hash \in Hashes, tx \in TxShapes, receipt \in Receipts, swaps \in 1..MaxPairs :
        HandlePending(tx_hash, tx, receipt, swaps, <<>>, <<>>)

\* ------------------------------------------------------- Sandwich::optimize
\* amounts are in the smallest unit of the main currency and the tolerance is that
\* of a main currency other than WETH; revenues are in units of 10^14 wei, in which
\* the minimum profit of 2 * 10^16 wei is 200
tolerance == 1000
intervals == 5
min_profit_threshold == 200
MaxCeiling == 30000
OptCeilings == {0, 4000, MaxCeiling}
\* the revenue of one simulated candidate: a loss, nothing (or a failed simulation),
\* below the threshold, at the threshold
OptProfits == {-10, 0, 190, 200}

\* Option::None of an OptimizedSandwich
NoSandwich == [none |-> TRUE]

\* the zeroed OptimizedSandwich
Zeroed == [amount_in |-> 0, max_revenue |-> 0, calldata |-> <<>>]

\* the calldata simulate_sandwich returns for an input: it encodes the amount
CandidateCalldata(input) == <<input>>

\* the loop over the round's results: a candidate replaces the best so far when its
\* profit is greater than max_revenue; max_idx starts at 0 in every round
RECURSIVE PickBest(_, _, _, _)
PickBest(inputs, profits, idx, best) ==
    IF idx > intervals THEN best
    ELSE PickBest(inputs, profits, idx + 1,
                  IF profits[idx] > best.max_revenue
                  THEN [optimized_in |-> inputs[idx], max_revenue |-> profits[idx],
                        max_calldata |-> CandidateCalldata(inputs[idx]), max_idx |-> idx]
                  ELSE best)

OptStep(c) == (c.max_amount_in - c.min_amount_in) \div intervals

\* the gate on the result of the search
BelowThreshold_C5(max_revenue) == max_revenue < 20
BelowThreshold(max_revenue) == max_revenue < min_profit_threshold

OptimizeRound_C33 ==
    /\ optimize_call.pc = "loop"
    /\ OptStep(optimize_call) > tolerance
    /\ \E profits \in [0..intervals -> OptProfits] :
        LET c == optimize_call
            step == OptStep(c)
            inputs == [i \in 0..intervals |-> c.min_amount_in + (i * step)]
            best == PickBest(inputs, profits, 0,
                             [optimized_in |-> c.optimized_in, max_revenue |-> c.max_revenue,
                              max_calldata |-> c.max_calldata, max_idx |-> 0])
        IN  optimize_call' =
                [c EXCEPT !.optimized_in = best.optimized_in,
                          !.max_revenue = best.max_revenue,
                          !.max_calldata = best.max_calldata,
                          !.min_amount_in = inputs[0],
                          !.max_amount_in = inputs[intervals]]
    /\ UNCHANGED <<ovars, gate_call, flashloan_call, bundle_call, call>>

\* one round of the search loop: six candidates are simulated, the best is kept and
\* the interval becomes the neighbours of this round's max_idx
OptimizeRound ==
    /\ optimize_call.pc = "loop"
    /\ OptStep(optimize_call) > tolerance
    /\ \E profits \in [0..intervals -> OptProfits] :
        LET c == optimize_call
            step == OptStep(c)
            inputs == [i \in 0..intervals |-> c.min_amount_in + (i * step)]
            best == PickBest(inputs, profits, 0,
                             [optimized_in |-> c.optimized_in, max_revenue |-> c.max_revenue,
                              max_calldata |-> c.max_calldata, max_idx |-> 0])
        IN  optimize_call' =
                [c EXCEPT !.optimized_in = best.optimized_in,
                          !.max_revenue = best.max_revenue,
                          !.max_calldata = best.max_calldata,
                          !.min_amount_in = IF best.max_idx = 0 THEN 0
                                            ELSE inputs[best.max_idx - 1],
                          !.max_amount_in = IF best.max_idx = intervals
                                            THEN inputs[best.max_idx]
                                            ELSE inputs[best.max_idx + 1]]
    /\ UNCHANGED <<ovars, gate_call, flashloan_call, bundle_call, call>>

\* the loop ends when the step is within the tolerance: the result is gated by the
\* minimum profit and recorded in self.optimized_sandwich when it passes
OptimizeReturn ==
    /\ optimize_call.pc = "loop"
    /\ OptStep(optimize_call) <= tolerance
    /\ LET c == optimize_call
           optimized_sandwich == [amount_in |-> c.optimized_in,
                                  max_revenue |-> c.max_revenue,
                                  calldata |-> c.max_calldata]
       IN  optimize_call' =
               IF BelowThreshold(c.max_revenue)
               THEN [c EXCEPT !.pc = "done", !.result = Zeroed]
               ELSE [c EXCEPT !.pc = "done", !.result = optimized_sandwich,
                              !.optimized_sandwich = optimized_sandwich]
    /\ UNCHANGED <<ovars, gate_call, flashloan_call, bundle_call, call>>

\* ------------------------------------------------ the flash-loan fee gate
MaxRevenue == 25
GateAmounts == {0, 1111, 1112, 10000, 15000}
GateRevenues == (-1)..MaxRevenue

\* main_dish_v3 from the verified revenue to the bundle: the gates, then
\* create_flashloan_sando_bundle, whose result is bundle
GateCall ==
    /\ gate_call.pc = "call"
    /\ LET gate == FeeGate(gate_call.revenue, gate_call.amount_in)
       IN  gate_call' = [gate_call EXCEPT
               !.pc = "done",
               !.result = [accepted |-> gate.stage = "accepted",
                           built |-> gate.stage = "accepted" /\ gate_call.bundle = "ok",
                           adjusted_revenue |-> gate.adjusted_revenue]]
    /\ UNCHANGED <<ovars, optimize_call, flashloan_call, bundle_call, call>>

\* ------------------------------------------- create_flashloan_sandwich_tx
MaxEntries == 2
EntryBytes == 105

Repeat(b, n) == [i \in 1..n |-> b]

\* u64::to_be_bytes of a number below 256
to_be_bytes(n) == Repeat(0, 7) \o <<n>>

\* one packed trade entry: zeroForOne (1 byte), pair (20), tokenIn (20), amountIn (32),
\* amountOut (32); k stands for the entry's content
TradeEntry(zero_for_one, k) ==
    <<zero_for_one>> \o Repeat(k, 20) \o Repeat(k, 20) \o Repeat(k, 32) \o Repeat(k, 32)

RECURSIVE TradeEntries(_, _, _)
TradeEntries(zero_for_one, first, n) ==
    IF n = 0 THEN <<>>
    ELSE TradeEntry(zero_for_one, first) \o TradeEntries(zero_for_one, first + 1, n - 1)

\* BatchSandwich::encode_frontrun_tx for a sandwiches with reserves: the packed block
\* number, then one entry per sandwich
encode_frontrun_tx(block_number, a) ==
    to_be_bytes(block_number) \o TradeEntries(1, 10, a)

\* BatchSandwich::encode_backrun_tx, likewise
encode_backrun_tx(block_number, b) ==
    to_be_bytes(block_number) \o TradeEntries(0, 20, b)

\* calldata that starts with a 4-byte function selector
WithSelector(entries) == Repeat(255, 4) \o entries

\* the placeholder block_number() of execution_v3.rs
block_number == 1

\* create_flashloan_sandwich_tx: the blob is the block number, then each calldata
\* longer than 4 bytes without its first 4 bytes; common is the result of
\* _common_fields
create_flashloan_sandwich_tx(front_calldata, back_calldata, common) ==
    LET front_data == IF Len(front_calldata) > 4
                      THEN SubSeq(front_calldata, 5, Len(front_calldata)) ELSE <<>>
        back_data == IF Len(back_calldata) > 4
                     THEN SubSeq(back_calldata, 5, Len(back_calldata)) ELSE <<>>
        sandwich_data == to_be_bytes(block_number) \o front_data \o back_data
    IN  IF common = "err" THEN [sandwich_data |-> <<>>, result |-> "err"]
        ELSE IF Len(sandwich_data) <= 8 \/ (Len(sandwich_data) - 8) % EntryBytes # 0
             THEN [sandwich_data |-> sandwich_data, result |-> "rejected"]
             ELSE [sandwich_data |-> sandwich_data, result |-> "built"]

FlashloanTx ==
    /\ flashloan_call.pc = "call"
    /\ LET c == flashloan_call
           r == create_flashloan_sandwich_tx(c.front_calldata, c.back_calldata, c.common)
       IN  flashloan_call' = [c EXCEPT !.pc = "done", !.sandwich_data = r.sandwich_data,
                                       !.result = r.result]
    /\ UNCHANGED <<ovars, optimize_call, gate_call, bundle_call, call>>

\* ------------------------------------------------------ create_sando_bundle
MaxNonce == 3
Owners == {1, 2}
Fees == 0..2

\* a bundle call whose _common_fields fails returns the error
NoBundle == [none |-> TRUE]

create_sando_bundle_C10(owner, nonce, base_fee, max_priority_fee_per_gas, max_fee_per_gas) ==
    [frontrun_tx |-> [type |-> "Eip1559", from |-> owner, nonce |-> nonce,
                      max_priority_fee_per_gas |-> 0, max_fee_per_gas |-> base_fee],
     backrun_tx |-> [type |-> "Eip1559", from |-> owner, nonce |-> nonce,
                     max_priority_fee_per_gas |-> max_priority_fee_per_gas,
                     max_fee_per_gas |-> max_fee_per_gas]]
\* Executor::create_sando_bundle after _common_fields returned (owner, nonce)
create_sando_bundle(owner, nonce, base_fee, max_priority_fee_per_gas, max_fee_per_gas) ==
    LET front_nonce == nonce
        back_nonce == front_nonce + 1
    IN  [frontrun_tx |-> [type |-> "Eip1559", from |-> owner, nonce |-> front_nonce,
                          max_priority_fee_per_gas |-> 0, max_fee_per_gas |-> base_fee],
         backrun_tx |-> [type |-> "Eip1559", from |-> owner, nonce |-> back_nonce,
                         max_priority_fee_per_gas |-> max_priority_fee_per_gas,
                         max_fee_per_gas |-> max_fee_per_gas]]

SandoBundle ==
    /\ bundle_call.pc = "call"
    /\ LET c == bundle_call
       IN  bundle_call' =
               [c EXCEPT !.pc = "done",
                         !.result = IF c.common = "err" THEN NoBundle
                                    ELSE create_sando_bundle(c.owner, c.nonce, c.base_fee,
                                                             c.max_priority_fee_per_gas,
                                                             c.max_fee_per_gas)]
    /\ UNCHANGED <<ovars, optimize_call, gate_call, flashloan_call, call>>


\* -------------------------------------------------- to_sando_bundle_request
MaxVictims == 2
MaxRetries == 2

\* TypedTransaction::rlp_signed and Transaction::rlp: the raw bytes of a transaction
rlp_signed(tx) == [tx |-> tx, signed |-> "owner"]
rlp(tx) == [tx |-> tx, signed |-> "victim"]

\* BundleRequest::push_transaction adds at the end
push_transaction(bundle, raw) == [bundle EXCEPT !.transactions = Append(@, raw)]

RECURSIVE PushVictims(_, _, _)
PushVictims(bundle, victim_txs, i) ==
    IF i > Len(victim_txs) THEN bundle
    ELSE PushVictims(push_transaction(bundle, rlp(victim_txs[i])), victim_txs, i + 1)

NoRequest == [none |-> TRUE]

\* Executor::to_sando_bundle_request: sign_front and sign_back are the results of the
\* two sign_transaction calls
to_sando_bundle_request_C11(sando_bundle, block, retries, sign_front, sign_back) ==
    IF sign_front = "err" \/ sign_back = "err" THEN NoRequest
    ELSE LET bundle == [block |-> block + retries, simulation_block |-> block,
                        simulation_timestamp |-> 0, transactions |-> <<>>]
             with_front == push_transaction(bundle, rlp_signed(sando_bundle.frontrun_tx))
             with_back == push_transaction(with_front, rlp_signed(sando_bundle.backrun_tx))
         IN  PushVictims(with_back, sando_bundle.victim_txs, 1)
to_sando_bundle_request(sando_bundle, block, retries, sign_front, sign_back) ==
    IF sign_front = "err" \/ sign_back = "err" THEN NoRequest
    ELSE LET bundle == [block |-> block + retries, simulation_block |-> block,
                        simulation_timestamp |-> 0, transactions |-> <<>>]
             with_front == push_transaction(bundle, rlp_signed(sando_bundle.frontrun_tx))
             with_victims == PushVictims(with_front, sando_bundle.victim_txs, 1)
         IN  push_transaction(with_victims, rlp_signed(sando_bundle.backrun_tx))

BundleRequest ==
    /\ call.fn = "to_sando_bundle_request"
    /\ call.pc = "call"
    /\ call' = [call EXCEPT !.pc = "done",
                            !.result = to_sando_bundle_request(call.sando_bundle, call.block,
                                                               call.retries, call.sign_front,
                                                               call.sign_back)]
    /\ UNCHANGED <<ovars, optimize_call, gate_call, flashloan_call, bundle_call>>


\* ------------------------------------------------- main_dish_v3: gas limit
MaxGas == 12

\* the gas limit main_dish_v3 gives the bundle: u64 arithmetic, the division truncates
gas_limit(front_gas_used, back_gas_used) == ((front_gas_used + back_gas_used) * 13) \div 10

GasLimit ==
    /\ call.fn = "gas_limit"
    /\ call.pc = "call"
    /\ call' = [call EXCEPT !.pc = "done",
                            !.result = gas_limit(call.front_gas_used, call.back_gas_used)]
    /\ UNCHANGED <<ovars, optimize_call, gate_call, flashloan_call, bundle_call>>


\* --------------------------------------------------------- broadcast_bundle
NumBuilders == 3
Builders == 1..NumBuilders
\* how the task of one send_bundle ends: a response, no response (Ok(None)), an
\* error of the request, or the task aborts (a JoinError)
SendOutcomes == {"ok_some", "ok_none", "err", "abort"}

\* the loop over the joined results: only Ok(Ok(..)) inserts the builder, with the
\* response or its default
RECURSIVE CollectResponses_C13(_, _, _)
CollectResponses_C13(results, i, response_map) ==
    IF i > NumBuilders THEN response_map
    ELSE IF results[i] \in {"ok_some", "ok_none"}
         THEN CollectResponses_C13(results, i + 1,
                  Insert(response_map, i,
                         IF results[i] = "ok_some" THEN "response" ELSE "default"))
         ELSE response_map
RECURSIVE CollectResponses(_, _, _)
CollectResponses(results, i, response_map) ==
    IF i > NumBuilders THEN response_map
    ELSE IF results[i] \in {"ok_some", "ok_none"}
         THEN CollectResponses(results, i + 1,
                  Insert(response_map, i,
                         IF results[i] = "ok_some" THEN "response" ELSE "default"))
         ELSE CollectResponses(results, i + 1, response_map)

\* the spawned task of one builder ends
SendBundle ==
    /\ call.fn = "broadcast_bundle"
    /\ call.pc = "join"
    /\ \E builder \in Builders, outcome \in SendOutcomes :
           /\ call.requests[builder] = "running"
           /\ call' = [call EXCEPT !.requests[builder] = outcome]
    /\ UNCHANGED <<ovars, optimize_call, gate_call, flashloan_call, bundle_call>>

\* join_all has every result: the responses are collected and the map is returned
BroadcastReturn ==
    /\ call.fn = "broadcast_bundle"
    /\ call.pc = "join"
    /\ \A builder \in Builders : call.requests[builder] # "running"
    /\ call' = [call EXCEPT !.pc = "done", !.returned = "Ok",
                            !.response_map = CollectResponses(call.requests, 1, EmptyMap)]
    /\ UNCHANGED <<ovars, optimize_call, gate_call, flashloan_call, bundle_call>>


\* ------------------------------------- transaction classifier and swap extractor
\* the curated router set and the curated swap selector set; "38ed1739" is
\* swapExactTokensForTokens and "022c0d9f" is UniswapV2Pair.swap
ROUTER_SET == {"router"}
SWAP_SELECTOR_SET == {"38ed1739", "022c0d9f"}
is_known_router(addr) == addr \in ROUTER_SET
is_known_swap_selector(selector) == selector \in SWAP_SELECTOR_SET

\* an absent Option<H160>, and the zero address unwrap_or_default() makes of it
NoAddress == "none"
ZeroAddress == "0x0"

\* Option values of the extractor
Nothing == [some |-> FALSE]
Some(v) == [some |-> TRUE, value |-> v]

\* a get_code answer: the call failed, or the bytecode with its length and whether
\* it holds the token0() and the token1() selector
CodeErr == [ok |-> FALSE]
Code(len, token0, token1) ==
    [ok |-> TRUE, len |-> len, has_token0 |-> token0, has_token1 |-> token1]
CodeResults ==
    {CodeErr, Code(99, TRUE, TRUE), Code(100, TRUE, TRUE), Code(100, TRUE, FALSE),
     Code(1000, FALSE, FALSE), Code(1001, FALSE, FALSE)}

is_pool_contract(code) ==
    IF code.ok
    THEN IF code.len < 100 THEN FALSE ELSE code.has_token0 /\ code.has_token1
    ELSE FALSE

is_router_like(code) == IF code.ok THEN code.len > 1000 ELSE FALSE

\* calldata: its length in bytes, its first four bytes when it has them, and the
\* token path an ABI decode of the rest gives (empty when the decode fails)
Calldata(len, selector, path) == [len |-> len, selector |-> selector, path |-> path]

\* classify_transaction with the get_code answers its two heuristics would get
classify_transaction_C18(tx, router_code, pool_code) ==
    IF tx.to # NoAddress /\ is_known_router(tx.to) THEN "Swap"
    ELSE IF tx.input.len = 0 THEN "EthTransfer"
    ELSE IF tx.input.len < 4 THEN "Swap"
    ELSE IF is_known_swap_selector(tx.input.selector) THEN "Swap"
    ELSE IF tx.input.selector = "095ea7b3" THEN "Erc20Approve"
    ELSE IF tx.input.selector = "a9059cbb" THEN "Erc20Transfer"
    ELSE IF tx.to # NoAddress /\ is_router_like(router_code) THEN "Swap"
    ELSE IF tx.to # NoAddress /\ is_pool_contract(pool_code) THEN "Swap"
    ELSE "Other"
classify_transaction_C19(tx, router_code, pool_code) ==
    IF tx.to # NoAddress /\ is_known_router(tx.to) THEN "Swap"
    ELSE IF tx.input.len >= 4 /\ is_known_swap_selector(tx.input.selector) THEN "Swap"
    ELSE IF tx.input.len >= 4 /\ tx.input.selector = "095ea7b3" THEN "Erc20Approve"
    ELSE IF tx.input.len >= 4 /\ tx.input.selector = "a9059cbb" THEN "Erc20Transfer"
    ELSE IF tx.to # NoAddress /\ is_router_like(router_code) THEN "Swap"
    ELSE IF tx.to # NoAddress /\ is_pool_contract(pool_code) THEN "Swap"
    ELSE IF tx.input.len = 0 THEN "EthTransfer"
    ELSE "Other"
classify_transaction(tx, router_code, pool_code) ==
    IF tx.to # NoAddress /\ is_known_router(tx.to) THEN "Swap"
    ELSE IF tx.input.len = 0 THEN "EthTransfer"
    ELSE IF tx.input.len >= 4 /\ is_known_swap_selector(tx.input.selector) THEN "Swap"
    ELSE IF tx.input.len >= 4 /\ tx.input.selector = "095ea7b3" THEN "Erc20Approve"
    ELSE IF tx.input.len >= 4 /\ tx.input.selector = "a9059cbb" THEN "Erc20Transfer"
    ELSE IF tx.to # NoAddress /\ is_router_like(router_code) THEN "Swap"
    ELSE IF tx.to # NoAddress /\ is_pool_contract(pool_code) THEN "Swap"
    ELSE "Other"


\* the seven main currencies and their weights
MainCurrencies == {"WETH", "USDT", "USDC", "WBTC", "DAI", "LINK", "MKR"}
is_main_currency(token_address) == token_address \in MainCurrencies
weight(token) ==
    CASE token = "WETH" -> 7
      [] token = "WBTC" -> 6
      [] token = "USDT" -> 5
      [] token = "USDC" -> 4
      [] token = "DAI" -> 3
      [] token = "LINK" -> 2
      [] token = "MKR" -> 1
      [] OTHER -> 7

\* the shorter list the receipt scan uses
is_main_token(token) == token \in {"WETH", "USDT", "USDC", "DAI"}

\* (main, target) of a pair, or nothing when neither token is a main currency
return_main_and_target_currency(token0, token1) ==
    IF ~is_main_currency(token0) /\ ~is_main_currency(token1) THEN Nothing
    ELSE IF is_main_currency(token0) /\ is_main_currency(token1)
         THEN IF weight(token0) > weight(token1)
              THEN Some(<<token0, token1>>)
              ELSE Some(<<token1, token0>>)
         ELSE IF is_main_currency(token0)
              THEN Some(<<token0, token1>>)
              ELSE Some(<<token1, token0>>)

\* the pool registry: a USDC/WETH pair, a pair of two other tokens and a WETH pair
Pool(token0, token1) ==
    [token0 |-> token0, token1 |-> token1, version |-> "UniswapV2", fee |-> 3000]
pools_map ==
    [addr \in {"pool1", "pool2", "pool3"} |->
        CASE addr = "pool1" -> Pool("USDC", "WETH")
          [] addr = "pool2" -> Pool("TKA", "TKB")
          [] addr = "pool3" -> Pool("WETH", "TKA")]

SwapInfo(tx_hash, target_pair, main_currency, target_token, pool, token0_is_main, direction) ==
    [tx_hash |-> tx_hash, target_pair |-> target_pair,
     main_currency |-> main_currency, target_token |-> target_token,
     version |-> pool.version, token0_is_main |-> token0_is_main,
     fee |-> pool.fee, direction |-> direction]

\* pool_direct_swap reads the pool alone: it is given no topic and no data of the log
pool_direct_swap(tx_hash, pool_address, pool) ==
    LET pair == return_main_and_target_currency(pool.token0, pool.token1)
    IN  IF pair.some
        THEN Some(SwapInfo(tx_hash, pool_address, pair.value[1], pair.value[2], pool,
                           pair.value[1] = pool.token0, "Buy"))
        ELSE Nothing

\* a call frame of the trace: its own logs and its nested calls
Frame(logs, calls) == [logs |-> logs, calls |-> calls]

\* extract_logs: the logs of a frame, then those of its nested calls in order
RECURSIVE extract_logs(_)
RECURSIVE ExtractCalls(_, _)
ExtractCalls(calls, i) ==
    IF i > Len(calls) THEN <<>> ELSE extract_logs(calls[i]) \o ExtractCalls(calls, i + 1)
extract_logs(call_frame) == call_frame.logs \o ExtractCalls(call_frame.calls, 1)

\* the loop over the traced logs: every log at a registered pool is handed to
\* pool_direct_swap
RECURSIVE ScanTraceLogs(_, _, _, _)
ScanTraceLogs(tx_hash, logs, i, swap_info_vec) ==
    IF i > Len(logs) THEN swap_info_vec
    ELSE LET addr == logs[i].address
             si == IF addr # NoAddress /\ addr \in DOMAIN pools_map
                   THEN pool_direct_swap(tx_hash, addr, pools_map[addr])
                   ELSE Nothing
         IN  ScanTraceLogs(tx_hash, logs, i + 1,
                 IF si.some THEN Append(swap_info_vec, si.value) ELSE swap_info_vec)

\* the direct pool branch of the calldata path
DirectPoolSwaps(tx, to_address) ==
    LET pool == pools_map[to_address]
        token0_is_main == is_main_currency(pool.token0)
        token1_is_main == is_main_currency(pool.token1)
    IN  IF tx.input.selector \in {"022c0d9f", "cdd6cda9", "d50e6fcd", "128acb08"}
           /\ (token0_is_main \/ token1_is_main)
        THEN IF token0_is_main
             THEN <<SwapInfo(tx.hash, to_address, pool.token0, pool.token1, pool,
                             TRUE, "Buy")>>
             ELSE <<SwapInfo(tx.hash, to_address, pool.token1, pool.token0, pool,
                             FALSE, "Buy")>>
        ELSE <<>>

\* get_token_paths: the decoded path of a v2 or v3 router selector, kept when it
\* has two tokens or more
get_token_paths(input) ==
    IF input.selector \in {"7ff36ab5", "fb3bdb41", "b6f9de95", "38ed1739", "4a25d94a",
                           "18cbafe5", "8803dbee", "472b43f3", "5c11d795", "791ac947",
                           "04e45aaf", "c04b8d59", "5023b4df", "09b81346"}
       /\ Len(input.path) >= 2
    THEN <<input.path>>
    ELSE <<>>

\* get_pool_by_tokens returns the first pool of the map's iteration that holds both
\* tokens: any of these
get_pool_by_tokens(token0, token1) ==
    {addr \in DOMAIN pools_map :
        \/ pools_map[addr].token0 = token0 /\ pools_map[addr].token1 = token1
        \/ pools_map[addr].token0 = token1 /\ pools_map[addr].token1 = token0}

\* the SwapInfo of a two-token router path on the pool found for it
RouterSwapInfo(tx_hash, token_in, pair_address) ==
    LET pool == pools_map[pair_address]
        token0 == pool.token0
        token1 == pool.token1
        is_token0_main == is_main_currency(token0)
        is_token1_main == is_main_currency(token1)
        token0_is_main == (token0 = token_in /\ is_token0_main)
                          \/ (token1 = token_in /\ is_token1_main)
        main_currency == IF token0_is_main THEN token0 ELSE token1
        target_token == IF token0_is_main THEN token1 ELSE token0
        direction == IF token_in = main_currency THEN "Buy" ELSE "Sell"
    IN  SwapInfo(tx_hash, pair_address, main_currency, target_token, pool,
                 token0_is_main, direction)

\* the router branch: the possible vectors, one per pool the lookup may return
RouterSwaps(tx) ==
    LET paths == get_token_paths(tx.input)
    IN  IF ~is_known_swap_selector(tx.input.selector) \/ paths = <<>> THEN {<<>>}
        ELSE IF Len(paths[1]) # 2 THEN {<<>>}
        ELSE LET found == get_pool_by_tokens(paths[1][1], paths[1][2])
             IN  IF found = {} THEN {<<>>}
                 ELSE {<<RouterSwapInfo(tx.hash, paths[1][1], pair_address)>> :
                          pair_address \in found}

\* format!("{:?}", topic0) prints all 32 bytes of the topic
V2_SWAP_EVENT_ID == "0xd78ad95f"
Topics == {"Swap", "Sync"}
format_debug(topic) ==
    CASE topic = "Swap" ->
             "0xd78ad95fa46c994b6551d0da85fc275fe613ce37657fb8d5e3d130840159d822"
      [] topic = "Sync" ->
             "0x1c411e9a96e071241c2f21f7726b17ae89e3cab4c78be50e062b03a9fffbbad1"

\* the scan of the receipt's logs
RECURSIVE ScanReceiptLogs(_, _, _, _)
ScanReceiptLogs(tx_hash, logs, i, swap_info_vec) ==
    IF i > Len(logs) THEN swap_info_vec
    ELSE LET log == logs[i]
             token0 == IF Len(log.topics) >= 2 THEN log.topics[2] ELSE ZeroAddress
             token1 == IF Len(log.topics) >= 3 THEN log.topics[3] ELSE ZeroAddress
         IN  ScanReceiptLogs(tx_hash, logs, i + 1,
                 IF log.address \in DOMAIN pools_map
                    /\ Len(log.topics) >= 1
                    /\ format_debug(log.topics[1]) = V2_SWAP_EVENT_ID
                 THEN Append(swap_info_vec,
                          SwapInfo(tx_hash, log.address,
                                   IF is_main_token(token0) THEN token0 ELSE token1,
                                   IF is_main_token(token0) THEN token1 ELSE token0,
                                   pools_map[log.address], is_main_token(token0),
                                   IF is_main_token(token0) THEN "Buy" ELSE "Sell"))
                 ELSE swap_info_vec)

\* retain(|info| unique_pairs.insert(info.target_pair)): the first record of every
\* pair is kept
RECURSIVE Retain(_, _, _, _)
Retain(swap_info_vec, i, unique_pairs, kept) ==
    IF i > Len(swap_info_vec) THEN kept
    ELSE IF swap_info_vec[i].target_pair \in unique_pairs
         THEN Retain(swap_info_vec, i + 1, unique_pairs, kept)
         ELSE Retain(swap_info_vec, i + 1,
                     unique_pairs \cup {swap_info_vec[i].target_pair},
                     Append(kept, swap_info_vec[i]))

Deduplicate(swap_info_vec) ==
    IF Len(swap_info_vec) > 1 THEN Retain(swap_info_vec, 1, {}, <<>>)
    ELSE swap_info_vec


\* the inputs of extract_swap_info: the traces debug_trace_call may answer with and
\* the receipts get_transaction_receipt may answer with
MaxLogs == 1
MaxReceiptLogs == 2
TraceLogs == [address : {"pool1", "pool2", "token", NoAddress}, topics : {<<t>> : t \in Topics}]
TraceFrames ==
    {Frame(logs, <<>>) : logs \in SeqsUpTo(TraceLogs, MaxLogs)}
    \cup {Frame(logs, <<Frame(inner, <<>>)>>) :
             logs \in SeqsUpTo(TraceLogs, MaxLogs), inner \in SeqsUpTo(TraceLogs, MaxLogs)}
ReceiptLogs ==
    [address : {"pool1", "token"}, topics : {<<>>, <<"Swap", "WETH", "USDC">>, <<"Sync">>}]
TokenPaths ==
    {<<>>, <<"WETH", "USDC">>, <<"USDC", "WETH">>, <<"WETH", "TKA">>, <<"TKA", "WETH">>,
     <<"TKA", "TKB">>, <<"WETH", "LINK">>, <<"WETH", "TKA", "TKB">>}
Calldatas ==
    {Calldata(0, "", <<>>), Calldata(3, "", <<>>), Calldata(4, "022c0d9f", <<>>),
     Calldata(68, "095ea7b3", <<>>), Calldata(68, "a9059cbb", <<>>),
     Calldata(4, "d0e30db0", <<>>)}
    \cup {Calldata(260, "38ed1739", path) : path \in TokenPaths}
PendingTxs ==
    [hash : {1}, to : {"router", "pool1", "pool2", "wallet", NoAddress},
     input : Calldatas, value : {0, 1}]

\* the transactions that reach the heuristics of classify_transaction, which ask
\* the node for the code of the destination
AsksCode(tx) ==
    /\ tx.to # NoAddress
    /\ ~is_known_router(tx.to)
    /\ tx.input.len # 0
    /\ tx.input.len >= 4 =>
           /\ ~is_known_swap_selector(tx.input.selector)
           /\ tx.input.selector \notin {"095ea7b3", "a9059cbb"}

\* classify_transaction has answered
ClassifyTransaction ==
    /\ call.fn = "extract_swap_info"
    /\ call.pc = "classify"
    /\ \E router_code \in CodeResults, pool_code \in CodeResults :
           /\ (router_code.ok /\ pool_code.ok) => router_code = pool_code
           /\ call' = [call EXCEPT
                  !.pc = "classified",
                  !.tx_kind = classify_transaction(call.tx, router_code, pool_code),
                  !.router_code = IF AsksCode(call.tx) THEN Some(router_code)
                                  ELSE Nothing,
                  !.pool_code = IF AsksCode(call.tx) /\ ~is_router_like(router_code)
                                THEN Some(pool_code) ELSE Nothing]
    /\ UNCHANGED <<ovars, optimize_call, gate_call, flashloan_call, bundle_call>>

need_trace(tx_kind, tx) ==
    tx_kind # "Swap" \/ (IF tx.to = NoAddress THEN TRUE ELSE ~is_known_router(tx.to))

\* the trace path: debug_trace_call has answered, every log at a registered pool
\* gives a record, and the vector is returned as it is
TraceCall ==
    /\ call.fn = "extract_swap_info"
    /\ call.pc = "classified"
    /\ need_trace(call.tx_kind, call.tx)
    /\ \E trace \in {Nothing} \cup {Some(frame) : frame \in TraceFrames} :
           call' = [call EXCEPT
               !.pc = "done", !.path = "trace", !.trace = trace,
               !.result = IF trace.some
                          THEN ScanTraceLogs(call.tx.hash, extract_logs(trace.value),
                                             1, <<>>)
                          ELSE <<>>]
    /\ UNCHANGED <<ovars, optimize_call, gate_call, flashloan_call, bundle_call>>

\* the calldata path up to the receipt request: nothing to decode below four bytes,
\* else the direct pool branch or the router branch
DecodeInput ==
    /\ call.fn = "extract_swap_info"
    /\ call.pc = "classified"
    /\ ~need_trace(call.tx_kind, call.tx)
    /\ LET to_address == IF call.tx.to = NoAddress THEN ZeroAddress ELSE call.tx.to
       IN  \E swap_info_vec \in
                  (IF call.tx.input.len < 4 THEN {<<>>}
                   ELSE IF to_address \in DOMAIN pools_map
                        THEN {DirectPoolSwaps(call.tx, to_address)}
                   ELSE IF is_known_router(to_address) THEN RouterSwaps(call.tx)
                   ELSE {<<>>}) :
               call' = [call EXCEPT
                   !.path = "calldata",
                   !.swap_info_vec = swap_info_vec,
                   !.pc = IF call.tx.input.len >= 4 /\ swap_info_vec = <<>>
                          THEN "receipt" ELSE "done",
                   !.result = IF call.tx.input.len >= 4 /\ swap_info_vec = <<>>
                              THEN <<>> ELSE Deduplicate(swap_info_vec)]
    /\ UNCHANGED <<ovars, optimize_call, gate_call, flashloan_call, bundle_call>>

\* get_transaction_receipt has answered: the receipt's logs are scanned, the vector
\* is deduplicated and returned
ReceiptFallback ==
    /\ call.fn = "extract_swap_info"
    /\ call.pc = "receipt"
    /\ \E receipt \in {Nothing} \cup {Some(logs) : logs \in SeqsUpTo(ReceiptLogs, MaxReceiptLogs)} :
           call' = [call EXCEPT
               !.pc = "done", !.receipt = receipt,
               !.result = Deduplicate(
                   IF receipt.some
                   THEN ScanReceiptLogs(call.tx.hash, receipt.value, 1,
                                        call.swap_info_vec)
                   ELSE call.swap_info_vec)]
    /\ UNCHANGED <<ovars, optimize_call, gate_call, flashloan_call, bundle_call>>


\* ------------------------------------------------------------------ AMM math
MaxAmountIn == 7
MaxReserve == 4
\* the largest U256, scaled to the amounts above: a product beyond it panics
U256_MAX == 25000

\* U256 multiplication and addition panic on overflow
checked(n) == IF n > U256_MAX THEN Nothing ELSE Some(n)

get_v2_amount_out_C21(amount_in, reserve_in, reserve_out) ==
    LET amount_in_with_fee == checked(amount_in * 997)
        numerator == IF amount_in_with_fee.some
                     THEN checked(amount_in_with_fee.value * reserve_out * reserve_out)
                     ELSE Nothing
        scaled == checked(reserve_in * 1000)
        denominator == IF amount_in_with_fee.some /\ scaled.some
                       THEN checked(scaled.value + amount_in_with_fee.value)
                       ELSE Nothing
    IN  IF ~numerator.some \/ ~denominator.some THEN Nothing
        ELSE IF denominator.value = 0 THEN Some(0)
        ELSE Some(numerator.value \div denominator.value)
get_v2_amount_out_C20(amount_in, reserve_in, reserve_out) ==
    LET amount_in_with_fee == (amount_in * 997) % (U256_MAX + 1)
        numerator == (amount_in_with_fee * reserve_out) % (U256_MAX + 1)
        denominator == ((reserve_in * 1000) + amount_in_with_fee) % (U256_MAX + 1)
    IN  IF denominator = 0 THEN Some(0) ELSE Some(numerator \div denominator)
get_v2_amount_out(amount_in, reserve_in, reserve_out) ==
    LET amount_in_with_fee == checked(amount_in * 997)
        numerator == IF amount_in_with_fee.some
                     THEN checked(amount_in_with_fee.value * reserve_out)
                     ELSE Nothing
        scaled == checked(reserve_in * 1000)
        denominator == IF amount_in_with_fee.some /\ scaled.some
                       THEN checked(scaled.value + amount_in_with_fee.value)
                       ELSE Nothing
    IN  IF ~numerator.some \/ ~denominator.some THEN Nothing
        ELSE IF denominator.value = 0 THEN Some(0)
        ELSE Some(numerator.value \div denominator.value)

\* get_v2_amount_out is called with two amounts on the same reserves
AmountOut ==
    /\ call.fn = "get_v2_amount_out"
    /\ call.pc = "start"
    /\ \E smaller \in 0..MaxAmountIn, larger \in 0..MaxAmountIn :
           /\ smaller < larger
           /\ call' = [call EXCEPT
                  !.pc = "done",
                  !.amount_in = <<smaller, larger>>,
                  !.amount_out =
                      <<get_v2_amount_out(smaller, call.reserve_in, call.reserve_out),
                        get_v2_amount_out(larger, call.reserve_in, call.reserve_out)>>]
    /\ UNCHANGED <<ovars, optimize_call, gate_call, flashloan_call, bundle_call>>


\* get_v2_amount_out is called with one amount on the reserves and on their doubles
AmountOutDoubled ==
    /\ call.fn = "get_v2_amount_out"
    /\ call.pc = "reserves"
    /\ call' = [call EXCEPT
           !.pc = "done",
           !.amount_out =
               <<get_v2_amount_out(call.amount_in, call.reserve_in, call.reserve_out),
                 get_v2_amount_out(call.amount_in, 2 * call.reserve_in,
                                   2 * call.reserve_out)>>]
    /\ UNCHANGED <<ovars, optimize_call, gate_call, flashloan_call, bundle_call>>


\* ------------------------------------------------------------- next base fee
MaxGasUsed == 6
MaxGasLimit == 6
MaxBaseFee == 16

\* the U256 operators on values that may already be a panic: + and * panic on
\* overflow, - panics below zero, / panics on a zero divisor
u256_add(x, y) == IF x.some /\ y.some THEN checked(x.value + y.value) ELSE Nothing
u256_mul(x, y) == IF x.some /\ y.some THEN checked(x.value * y.value) ELSE Nothing
u256_sub(x, y) ==
    IF x.some /\ y.some /\ y.value <= x.value THEN Some(x.value - y.value) ELSE Nothing
u256_div(x, y) ==
    IF x.some /\ y.some /\ y.value # 0 THEN Some(x.value \div y.value) ELSE Nothing

calculate_next_block_base_fee_C22(gas_used, block_gas_limit, base_fee_per_gas, seed) ==
    LET half == block_gas_limit \div 2
        target_gas_used == IF half = 0 THEN 1 ELSE half
        new_base_fee ==
            IF gas_used > target_gas_used
            THEN u256_add(Some(base_fee_per_gas),
                     u256_div(u256_div(u256_mul(Some(base_fee_per_gas),
                                  u256_sub(Some(gas_used), Some(target_gas_used))),
                                  Some(target_gas_used)), Some(8)))
            ELSE u256_sub(Some(base_fee_per_gas),
                     u256_div(u256_mul(Some(base_fee_per_gas),
                                  u256_sub(Some(target_gas_used), Some(gas_used))),
                                  Some(target_gas_used)))
    IN  u256_add(new_base_fee, Some(seed))
calculate_next_block_base_fee(gas_used, block_gas_limit, base_fee_per_gas, seed) ==
    LET half == block_gas_limit \div 2
        target_gas_used == IF half = 0 THEN 1 ELSE half
        new_base_fee ==
            IF gas_used > target_gas_used
            THEN u256_add(Some(base_fee_per_gas),
                     u256_div(u256_div(u256_mul(Some(base_fee_per_gas),
                                  u256_sub(Some(gas_used), Some(target_gas_used))),
                                  Some(target_gas_used)), Some(8)))
            ELSE u256_sub(Some(base_fee_per_gas),
                     u256_div(u256_div(u256_mul(Some(base_fee_per_gas),
                                  u256_sub(Some(target_gas_used), Some(gas_used))),
                                  Some(target_gas_used)), Some(8)))
    IN  u256_add(new_base_fee, Some(seed))

\* one call, with the seed rand::thread_rng().gen_range(0..9) draws
NextBlockBaseFee ==
    /\ call.fn = "calculate_next_block_base_fee"
    /\ call.pc = "start"
    /\ \E seed \in 0..8 :
           call' = [call EXCEPT
               !.pc = "done", !.seed = seed,
               !.result = calculate_next_block_base_fee(call.gas_used, call.gas_limit,
                              call.base_fee_per_gas, seed)]
    /\ UNCHANGED <<ovars, optimize_call, gate_call, flashloan_call, bundle_call>>


\* ---------------------------------------------------------------- pool cache
MaxHead == 3
MaxCreated == 2
MaxChunk == 2
MaxRuns == 2

\* the chain: how many PairCreated logs each block holds
Chains == [1..MaxHead -> 0..MaxCreated]

\* a pool as load_uniswap_v2_pools builds it from the k-th log of a block
NewPool(block, k) == [id |-> -1, address |-> <<block, k>>, block_number |-> block]

\* the pools of the logs get_logs answers for the blocks from_block..to_block
RECURSIVE load_uniswap_v2_pools(_, _, _)
load_uniswap_v2_pools(chain, first, to_block) ==
    IF first > to_block \/ first > MaxHead THEN <<>>
    ELSE (IF first \in DOMAIN chain
          THEN [k \in 1..chain[first] |-> NewPool(first, k)]
          ELSE <<>>)
         \o load_uniswap_v2_pools(chain, first + 1, to_block)

\* the loop that cuts from_block..to_block into chunks; the last range ends at
\* to_block and may be empty
RECURSIVE BlockRange(_, _, _, _)
BlockRange(first, to_block, chunk, blocks_processed) ==
    LET start_idx == first + blocks_processed
        end_idx == start_idx + chunk - 1
    IN  IF end_idx > to_block THEN <<<<start_idx, to_block>>>>
        ELSE <<<<start_idx, end_idx>>>>
             \o BlockRange(first, to_block, chunk, blocks_processed + chunk)

\* the loop over the ranges: a request that fails is skipped
RECURSIVE ExtendPools(_, _, _, _, _)
ExtendPools(chain, block_range, i, failed, pools) ==
    IF i > Len(block_range) THEN pools
    ELSE ExtendPools(chain, block_range, i + 1, failed,
             IF i \in failed THEN pools
             ELSE pools \o load_uniswap_v2_pools(chain, block_range[i][1],
                                                 block_range[i][2]))

\* pools.sort_by_key(|p| p.block_number), a stable sort
RECURSIVE InsertByBlock(_, _)
InsertByBlock(sorted, pool) ==
    IF sorted = <<>> THEN <<pool>>
    ELSE IF sorted[Len(sorted)].block_number <= pool.block_number
         THEN Append(sorted, pool)
         ELSE Append(InsertByBlock(SubSeq(sorted, 1, Len(sorted) - 1), pool),
                     sorted[Len(sorted)])
RECURSIVE SortByBlock(_, _, _)
SortByBlock(pools, i, sorted) ==
    IF i > Len(pools) THEN sorted
    ELSE SortByBlock(pools, i + 1, InsertByBlock(sorted, pools[i]))

\* the rows of this run: those whose id is beyond the last cached id
IsNewRow_C23(pool_id, last_id) == pool_id >= last_id
IsNewRow(pool_id, last_id) == pool_id > last_id

\* the loop that numbers the pools without an id and writes the new rows
RECURSIVE NumberAndWrite(_, _, _, _, _, _)
NumberAndWrite(pools, i, id, last_id, numbered, rows) ==
    IF i > Len(pools) THEN [pools |-> numbered, rows |-> rows]
    ELSE LET next_id == IF pools[i].id = -1 THEN id + 1 ELSE id
             pool == IF pools[i].id = -1 THEN [pools[i] EXCEPT !.id = next_id]
                     ELSE pools[i]
         IN  NumberAndWrite(pools, i + 1, next_id, last_id, Append(numbered, pool),
                 IF IsNewRow(pool.id, last_id) THEN Append(rows, pool) ELSE rows)

\* one run of load_all_pools on the cache file as the runs before left it
load_all_pools(chain, cache, from_block, chunk, to_block, failed) ==
    LET pools == cache
        id == IF Len(pools) > 0 THEN pools[Len(pools)].id ELSE -1
        last_id == id
        first == IF id # -1 THEN pools[Len(pools)].block_number + 1 ELSE from_block
        block_range == BlockRange(first, to_block, chunk, 0)
        extended == ExtendPools(chain, block_range, 1, failed, pools)
        written == NumberAndWrite(SortByBlock(extended, 1, <<>>), 1, id, last_id,
                                  <<>>, <<>>)
    IN  [cache |-> cache \o written.rows, pools |-> written.pools, last_id |-> last_id,
         block_range |-> block_range]

\* a run that reaches the end: the node's head and the failing requests are the
\* node's choice
LoadAllPools ==
    /\ call.fn = "load_all_pools"
    /\ call.runs < MaxRuns
    /\ \E from_block \in 0..1, chunk \in 1..MaxChunk, to_block \in 0..MaxHead :
           \E failed \in SUBSET (1..Len(BlockRange(
                  IF call.cache = <<>> THEN from_block
                  ELSE call.cache[Len(call.cache)].block_number + 1,
                  to_block, chunk, 0))) :
               LET run == load_all_pools(call.chain, call.cache, from_block, chunk,
                                         to_block, failed)
               IN  call' = [call EXCEPT
                       !.runs = @ + 1, !.file_exists = TRUE, !.returned = "Ok",
                       !.before = call.cache, !.cache = run.cache,
                       !.pools = run.pools, !.last_id = run.last_id,
                       !.skipped = failed # {}]
    /\ UNCHANGED <<ovars, optimize_call, gate_call, flashloan_call, bundle_call>>

\* a run that ends at Ws::connect: the file exists from then on, with its header
\* at least, and no row is added
LoadAllPoolsConnectError ==
    /\ call.fn = "load_all_pools"
    /\ call.runs < MaxRuns
    /\ call' = [call EXCEPT
           !.runs = @ + 1, !.file_exists = TRUE, !.returned = "Err",
           !.before = call.cache, !.pools = <<>>, !.skipped = FALSE,
           !.last_id = IF call.cache = <<>> THEN -1
                       ELSE call.cache[Len(call.cache)].id]
    /\ UNCHANGED <<ovars, optimize_call, gate_call, flashloan_call, bundle_call>>


\* ------------------------------------------------------------ token registry
MaxFetches == 2

\* create_token_metadata for a token fetch_token_info found on chain
TokenMetadata(address, name, symbol, decimals) ==
    [address |-> address, name |-> name, symbol |-> symbol, decimals |-> decimals,
     balance_slot |-> 0, price_feed |-> Nothing, is_main_currency |-> FALSE,
     weight |-> 0, last_price_usd |-> Nothing]

\* the registry after initialize_default_tokens, cut down to WETH
DefaultTokens ==
    [address \in {"WETH"} |->
        [address |-> "WETH", name |-> "Wrapped Ether", symbol |-> "WETH",
         decimals |-> 18, balance_slot |-> 3, price_feed |-> Some("ETH/USD"),
         is_main_currency |-> TRUE, weight |-> 7, last_price_usd |-> Nothing]]

\* the answers of provider.call: an error, empty data, data that does not decode,
\* or data that decodes to a string or to a 256-bit word
CallErr == [kind |-> "err"]
CallEmpty == [kind |-> "empty"]
CallUndecodable == [kind |-> "undecodable"]
StringAnswer(value) == [kind |-> "string", value |-> value]
UintAnswer(value, fits_u32) == [kind |-> "uint", value |-> value, fits_u32 |-> fits_u32]
StringAnswers == {CallErr, CallEmpty, CallUndecodable, StringAnswer("Token A")}
UintAnswers ==
    {CallErr, CallEmpty, CallUndecodable, UintAnswer(6, TRUE), UintAnswer(300, TRUE),
     UintAnswer(0, FALSE)}

\* value.as_u32() as u8: as_u32 panics on a word beyond 32 bits, the cast keeps
\* the low byte
as_u32_as_u8(answer) == IF answer.fits_u32 THEN Some(answer.value % 256) ELSE Nothing

\* fetch_token_info is called: a registered token is returned at once
FetchTokenInfo ==
    /\ call.fn = "fetch_token_info"
    /\ call.pc \in {"idle", "done"}
    /\ call.fetches < MaxFetches
    /\ \E address \in {"WETH", "TKA"} :
           IF address \in DOMAIN call.tokens
           THEN call' = [call EXCEPT
                    !.fetches = @ + 1, !.pc = "done", !.address = address,
                    !.known = TRUE, !.calls = 0, !.answers = <<>>,
                    !.returned = "Ok", !.result = Some(call.tokens[address])]
           ELSE call' = [call EXCEPT
                    !.fetches = @ + 1, !.pc = "name()", !.address = address,
                    !.known = FALSE, !.calls = 0, !.answers = <<>>,
                    !.name = "Unknown", !.symbol = "UNK", !.decimals = 18,
                    !.returned = "none", !.result = Nothing]
    /\ UNCHANGED <<ovars, optimize_call, gate_call, flashloan_call, bundle_call>>

\* the call of name() has answered
FetchName ==
    /\ call.fn = "fetch_token_info"
    /\ call.pc = "name()"
    /\ \E answer \in StringAnswers :
           call' = [call EXCEPT
               !.pc = "symbol()", !.calls = @ + 1, !.answers = Append(@, answer),
               !.name = IF answer.kind = "string" THEN answer.value ELSE @]
    /\ UNCHANGED <<ovars, optimize_call, gate_call, flashloan_call, bundle_call>>

\* the call of symbol() has answered
FetchSymbol ==
    /\ call.fn = "fetch_token_info"
    /\ call.pc = "symbol()"
    /\ \E answer \in StringAnswers :
           call' = [call EXCEPT
               !.pc = "decimals()", !.calls = @ + 1, !.answers = Append(@, answer),
               !.symbol = IF answer.kind = "string" THEN answer.value ELSE @]
    /\ UNCHANGED <<ovars, optimize_call, gate_call, flashloan_call, bundle_call>>

\* the call of decimals() has answered; then the metadata is created, registered
\* and returned
FetchDecimals ==
    /\ call.fn = "fetch_token_info"
    /\ call.pc = "decimals()"
    /\ \E answer \in UintAnswers :
           LET cast == IF answer.kind = "uint" THEN as_u32_as_u8(answer)
                       ELSE Some(call.decimals)
               token == TokenMetadata(call.address, call.name, call.symbol, cast.value)
           IN  IF cast.some
               THEN call' = [call EXCEPT
                        !.pc = "done", !.calls = @ + 1, !.answers = Append(@, answer),
                        !.decimals = cast.value,
                        !.tokens = Insert(@, call.address, token),
                        !.returned = "Ok", !.result = Some(token)]
               ELSE call' = [call EXCEPT
                        !.pc = "done", !.calls = @ + 1, !.answers = Append(@, answer),
                        !.returned = "panic"]
    /\ UNCHANGED <<ovars, optimize_call, gate_call, flashloan_call, bundle_call>>


\* ------------------------------------------------------ registry lock, prices
NumUsers == 2
NumFeeds == 2
Users == 1..NumUsers

\* the answers of a price feed: an error, fewer than 96 bytes, a price that fits
\* u128, a price that does not
FeedAnswers == {"err", "short", "price", "too_large"}

\* the RwLock of the registry, read off its guards: the refresh holds its read
\* guard from its first step to its return
RefreshReads(c) == c.read_guard
Readers(c) == {u \in Users : c.users[u] = "reading"}
Writers(c) == {u \in Users : c.users[u] = "writing"}
CanRead(c) == Writers(c) = {}
CanWrite(c) == Writers(c) = {} /\ Readers(c) = {} /\ ~RefreshReads(c)

\* update_prices_from_chainlink takes the read guard
RefreshRead ==
    /\ call.fn = "update_prices_from_chainlink"
    /\ call.pc = "start"
    /\ CanRead(call)
    /\ call' = [call EXCEPT !.pc = "feed", !.i = 1, !.read_guard = TRUE]
    /\ UNCHANGED <<ovars, optimize_call, gate_call, flashloan_call, bundle_call>>

\* the feed of the i-th token has answered: a price that decodes is handed to
\* update_price, which asks for the write guard; any other answer is skipped
FeedAnswer ==
    /\ call.fn = "update_prices_from_chainlink"
    /\ call.pc = "feed"
    /\ \E answer \in FeedAnswers :
           call' = [call EXCEPT
               !.answers = Append(@, answer),
               !.pc = IF answer = "price" THEN "wait_write"
                      ELSE IF call.i = NumFeeds THEN "save" ELSE "feed",
               !.i = IF answer # "price" /\ call.i < NumFeeds THEN @ + 1 ELSE @]
    /\ UNCHANGED <<ovars, optimize_call, gate_call, flashloan_call, bundle_call>>

\* update_price asks for the write guard. The refresh itself still reads, so the
\* guard is never free for it: the request blocks for good, or write() panics, as
\* it may on a lock its thread already holds, and the unwinding drops the read guard
UpdatePrice ==
    /\ call.fn = "update_prices_from_chainlink"
    /\ call.pc = "wait_write"
    /\ IF CanWrite(call)
       THEN call' = [call EXCEPT
                !.prices = @ + 1,
                !.pc = IF call.i = NumFeeds THEN "save" ELSE "feed",
                !.i = IF call.i < NumFeeds THEN @ + 1 ELSE @]
       ELSE call' = [call EXCEPT !.pc = "panic", !.read_guard = FALSE]
    /\ UNCHANGED <<ovars, optimize_call, gate_call, flashloan_call, bundle_call>>

\* save_to_cache reads the registry once more, writes the file, and the refresh
\* returns Ok
SaveToCache ==
    /\ call.fn = "update_prices_from_chainlink"
    /\ call.pc = "save"
    /\ CanRead(call)
    /\ call' = [call EXCEPT !.pc = "done", !.saved = TRUE, !.read_guard = FALSE]
    /\ UNCHANGED <<ovars, optimize_call, gate_call, flashloan_call, bundle_call>>

\* a user calls get_token (read) or register_token (write)
UserRequest ==
    /\ call.fn = "update_prices_from_chainlink"
    /\ \E u \in Users, want \in {"wait_read", "wait_write"} :
           /\ call.users[u] = "idle"
           /\ call' = [call EXCEPT !.users[u] = want]
    /\ UNCHANGED <<ovars, optimize_call, gate_call, flashloan_call, bundle_call>>

\* the lock is granted to a waiting user
UserGrant ==
    /\ call.fn = "update_prices_from_chainlink"
    /\ \E u \in Users :
           \/ /\ call.users[u] = "wait_read"
              /\ CanRead(call)
              /\ call' = [call EXCEPT !.users[u] = "reading"]
           \/ /\ call.users[u] = "wait_write"
              /\ CanWrite(call)
              /\ call' = [call EXCEPT !.users[u] = "writing"]
    /\ UNCHANGED <<ovars, optimize_call, gate_call, flashloan_call, bundle_call>>

\* a user drops its guard
UserRelease ==
    /\ call.fn = "update_prices_from_chainlink"
    /\ \E u \in Users :
           /\ call.users[u] \in {"reading", "writing"}
           /\ call' = [call EXCEPT !.users[u] = "idle"]
    /\ UNCHANGED <<ovars, optimize_call, gate_call, flashloan_call, bundle_call>>


\* ------------------------------------------------------ BatchSandwich::simulate
\* the parallel tasks that simulate the same batch (Sandwich::optimize spawns one
\* task per candidate amount), the sandwiches of a batch and the block's base fee
NumTasks == 2
MaxSandwiches == 2
MaxSimBaseFee == 1

SimTasks == 1..NumTasks
VictimHashes == {"h1", "h2"}
TargetPairs == {"p1", "p2"}
SimSandwiches == [tx_hash : VictimHashes, target_pair : TargetPairs]

\* BatchSandwich::target_pairs
target_pairs_of(sandwiches) == [i \in 1..Len(sandwiches) |-> sandwiches[i].target_pair]

\* the batches simulate is called on: simulate_sandwich builds a batch of one
\* sandwich with its swap_info in swap_info_vec, main_dish_v3 builds a batch with
\* BatchSandwich::new and pushes onto sandwiches only
SimBatches ==
    {[sandwiches |-> <<s>>, swap_info_vec |-> {s.target_pair}] : s \in SimSandwiches}
    \cup {[sandwiches |-> ss, swap_info_vec |-> {}] :
             ss \in UNION {[1..n -> SimSandwiches] : n \in 1..MaxSandwiches}}

\* the victim transactions of encode_frontrun_tx: a transaction is pushed the first
\* time its hash is seen, before the reserves of the sandwich are looked up
RECURSIVE VictimTxsFrom(_, _, _)
VictimTxsFrom(sandwiches, i, added) ==
    IF i > Len(sandwiches) THEN <<>>
    ELSE IF sandwiches[i].tx_hash \in added
         THEN VictimTxsFrom(sandwiches, i + 1, added)
         ELSE <<sandwiches[i].tx_hash>>
              \o VictimTxsFrom(sandwiches, i + 1, added \cup {sandwiches[i].tx_hash})

victim_txs_of_C27(sandwiches) == [i \in 1..Len(sandwiches) |-> sandwiches[i].tx_hash]

victim_txs_of(sandwiches) == VictimTxsFrom(sandwiches, 1, {})

\* EvmSimulator::new: every call builds a new backend and a new EVM; the instance is
\* the first one that does not exist yet
new_simulator_C27(simulators) == 1

new_simulator(simulators) == CHOOSE s \in SimTasks : /\ ~simulators[s].created
                                                      /\ \A r \in SimTasks : r < s => simulators[r].created

NoSimulator == [created |-> FALSE, basefee |-> 0, touched_by |-> {}]

\* EvmSimulator::set_base_fee
set_base_fee(simulators, s, fee) == [simulators EXCEPT ![s].basefee = fee]

\* one state-touching step on simulator s, with the base fee it ran under
SimStep(simulators, s, step, tx) ==
    [step |-> step, tx |-> tx, simulator |-> s, basefee |-> simulators[s].basefee]

touch_simulator(simulators, s, t) == [simulators EXCEPT ![s].touched_by = @ \cup {t}]

\* simulate, line 289: the simulator of this run
SimulateNew ==
    /\ call.fn = "simulate"
    /\ \E t \in SimTasks :
           /\ call.runs[t].pc = "new"
           /\ LET s == new_simulator(call.simulators)
              IN call' = [call EXCEPT !.simulators[s] = [created |-> TRUE, basefee |-> 0,
                                                         touched_by |-> {t}],
                                      !.runs[t].simulator = s,
                                      !.runs[t].pc = "reserves_before"]
    /\ UNCHANGED <<ovars, optimize_call, gate_call, flashloan_call, bundle_call>>

\* simulate, lines 300-381: the reserves of every sandwich are read, the frontrun is
\* encoded with the victim transactions, the bot is deployed and funded and the
\* balances are read; a failed storage write or balance read returns Err
SimulateReservesBefore ==
    /\ call.fn = "simulate"
    /\ \E t \in SimTasks, ok \in BOOLEAN :
           /\ call.runs[t].pc = "reserves_before"
           /\ LET s == call.runs[t].simulator
                  sims == touch_simulator(call.simulators, s, t)
              IN call' = [call EXCEPT
                     !.simulators = sims,
                     !.runs[t].trace = Append(@, SimStep(sims, s, "reserves_before", "none")),
                     !.runs[t].victim_txs = victim_txs_of(call.batch.sandwiches),
                     !.runs[t].pc = IF ok THEN "frontrun" ELSE "err"]
    /\ UNCHANGED <<ovars, optimize_call, gate_call, flashloan_call, bundle_call>>

\* simulate, lines 383-406: the base fee is set to the block's and the frontrun is
\* called; a failed call counts as gas 0
SimulateFrontrun ==
    /\ call.fn = "simulate"
    /\ \E t \in SimTasks :
           /\ call.runs[t].pc = "frontrun"
           /\ LET s == call.runs[t].simulator
                  sims == touch_simulator(set_base_fee(call.simulators, s, call.base_fee), s, t)
              IN call' = [call EXCEPT
                     !.simulators = sims,
                     !.runs[t].trace = Append(@, SimStep(sims, s, "frontrun", "none")),
                     !.runs[t].pc = "victims"]
    /\ UNCHANGED <<ovars, optimize_call, gate_call, flashloan_call, bundle_call>>

\* simulate, lines 408-413: one victim transaction of the loop is called, under the
\* base fee the simulator has at that moment; its result is dropped
SimulateVictim ==
    /\ call.fn = "simulate"
    /\ \E t \in SimTasks :
           /\ call.runs[t].pc = "victims"
           /\ call.runs[t].i < Len(call.runs[t].victim_txs)
           /\ LET s == call.runs[t].simulator
                  sims == touch_simulator(call.simulators, s, t)
                  tx == call.runs[t].victim_txs[call.runs[t].i + 1]
              IN call' = [call EXCEPT
                     !.simulators = sims,
                     !.runs[t].trace = Append(@, SimStep(sims, s, "victim", tx)),
                     !.runs[t].i = @ + 1]
    /\ UNCHANGED <<ovars, optimize_call, gate_call, flashloan_call, bundle_call>>

\* simulate, lines 415-461: after the loop the base fee is set to 0 and the reserves
\* and the target balances are read; the unwrap of line 423 aborts the task when a
\* target pair has no entry in swap_info_vec
SimulateReservesAfter ==
    /\ call.fn = "simulate"
    /\ \E t \in SimTasks :
           /\ call.runs[t].pc = "victims"
           /\ call.runs[t].i >= Len(call.runs[t].victim_txs)
           /\ LET s == call.runs[t].simulator
                  sims == touch_simulator(set_base_fee(call.simulators, s, 0), s, t)
                  pairs == target_pairs_of(call.batch.sandwiches)
                  found == \A k \in 1..Len(pairs) : pairs[k] \in call.batch.swap_info_vec
              IN call' = IF found
                         THEN [call EXCEPT
                                  !.simulators = sims,
                                  !.runs[t].trace = Append(@, SimStep(sims, s, "reserves_after", "none")),
                                  !.runs[t].pc = "backrun"]
                         ELSE [call EXCEPT !.simulators = sims, !.runs[t].pc = "abort"]
    /\ UNCHANGED <<ovars, optimize_call, gate_call, flashloan_call, bundle_call>>

\* simulate, lines 463-491: the base fee is set to the block's again, the backrun is
\* encoded and called, and the base fee is set back to 0
SimulateBackrun ==
    /\ call.fn = "simulate"
    /\ \E t \in SimTasks :
           /\ call.runs[t].pc = "backrun"
           /\ LET s == call.runs[t].simulator
                  sims == touch_simulator(set_base_fee(call.simulators, s, call.base_fee), s, t)
              IN call' = [call EXCEPT
                     !.simulators = set_base_fee(sims, s, 0),
                     !.runs[t].trace = Append(@, SimStep(sims, s, "backrun", "none")),
                     !.runs[t].pc = "balances"]
    /\ UNCHANGED <<ovars, optimize_call, gate_call, flashloan_call, bundle_call>>

\* simulate, lines 493-554: the balances are read again and the revenue is returned;
\* a failed balance read returns Err
SimulateReturn ==
    /\ call.fn = "simulate"
    /\ \E t \in SimTasks, ok \in BOOLEAN :
           /\ call.runs[t].pc = "balances"
           /\ call' = [call EXCEPT
                  !.simulators = touch_simulator(call.simulators, call.runs[t].simulator, t),
                  !.runs[t].pc = IF ok THEN "ok" ELSE "err"]
    /\ UNCHANGED <<ovars, optimize_call, gate_call, flashloan_call, bundle_call>>


\* ------------------------------------ Sandwich::optimize and its simulation tasks
\* amounts are in units of the tolerance, on the scale of U256_MAX; the ceilings
\* give one round and two rounds of the search
ScaledTolerance == 1
MaxTaskCeiling == 25
TaskCeilings == {10, MaxTaskCeiling}
TaskReserves == 1..2
TaskRevenues == {-10, 200}
TaskGas == 21

\* what BatchSandwich::simulate gives to simulate_sandwich
SimErr == [ok |-> FALSE]
SimOk(revenue) == [ok |-> TRUE, revenue |-> revenue]
SimOutcomes == {SimErr} \cup {SimOk(r) : r \in TaskRevenues}

\* a task that has not finished, and the JoinError of a task that panicked
Pending == [state |-> "pending"]
JoinError == [state |-> "panicked"]

\* simulate_sandwich: the batch of one sandwich is simulated; encode_frontrun_tx
\* computes get_v2_amount_out(amount_in - 1, reserves) with the panicking U256
\* operators; Err of simulate becomes the zero tuple
simulate_sandwich(idx, amount_in, reserve_in, reserve_out, sim) ==
    LET new_amount_in == IF amount_in >= 1 THEN amount_in - 1 ELSE 0
        amount_out == get_v2_amount_out(new_amount_in, reserve_in, reserve_out)
    IN  IF ~amount_out.some THEN JoinError
        ELSE IF sim.ok
             THEN [state |-> "finished", idx |-> idx, amount_in |-> amount_in,
                   revenue |-> sim.revenue,
                   front_gas_used |-> TaskGas, back_gas_used |-> TaskGas,
                   front_calldata |-> CandidateCalldata(amount_in),
                   back_calldata |-> CandidateCalldata(amount_in)]
             ELSE [state |-> "finished", idx |-> idx, amount_in |-> amount_in,
                   revenue |-> 0, front_gas_used |-> 0, back_gas_used |-> 0,
                   front_calldata |-> <<>>, back_calldata |-> <<>>]

\* the loop over the joined results: a result replaces the best so far when its
\* profit is greater than max_revenue; max_idx starts at 0 in every round
RECURSIVE PickBestResult_C40(_, _, _)
PickBestResult_C40(revenue, idx, best) ==
    IF idx > intervals THEN best
    ELSE PickBestResult_C40(revenue, idx + 1,
                        IF revenue[idx].revenue > best.max_revenue
                        THEN [optimized_in |-> revenue[idx].amount_in,
                              max_revenue |-> revenue[idx].revenue,
                              max_front_gas_used |-> revenue[idx].front_gas_used,
                              max_back_gas_used |-> revenue[idx].back_gas_used,
                              max_front_calldata |-> revenue[idx].front_calldata,
                              max_back_calldata |-> revenue[idx].back_calldata,
                              max_idx |-> idx]
                        ELSE IF revenue[idx].revenue = best.max_revenue
                        THEN [best EXCEPT
                                  !.max_back_gas_used = revenue[idx].back_gas_used,
                                  !.max_back_calldata = revenue[idx].back_calldata]
                        ELSE best)
RECURSIVE PickBestResult(_, _, _)
PickBestResult(revenue, idx, best) ==
    IF idx > intervals THEN best
    ELSE PickBestResult(revenue, idx + 1,
                        IF revenue[idx].revenue > best.max_revenue
                        THEN [optimized_in |-> revenue[idx].amount_in,
                              max_revenue |-> revenue[idx].revenue,
                              max_front_gas_used |-> revenue[idx].front_gas_used,
                              max_back_gas_used |-> revenue[idx].back_gas_used,
                              max_front_calldata |-> revenue[idx].front_calldata,
                              max_back_calldata |-> revenue[idx].back_calldata,
                              max_idx |-> idx]
                        ELSE best)

TaskStep(c) == (c.max_amount_in - c.min_amount_in) \div intervals

\* the zeroed OptimizedSandwich, with every field
ZeroedSandwich ==
    [amount_in |-> 0, max_revenue |-> 0, front_gas_used |-> 0, back_gas_used |-> 0,
     front_calldata |-> <<>>, back_calldata |-> <<>>]

\* optimize, lines 1115-1145: the step is above the tolerance, the six inputs are
\* computed and one task per input is spawned
OptimizeSpawn ==
    /\ call.fn = "optimize"
    /\ call.pc = "loop"
    /\ TaskStep(call) > ScaledTolerance
    /\ call' = [call EXCEPT
           !.pc = "tasks",
           !.round = @ + 1,
           !.failed = {},
           !.inputs = [i \in 0..intervals |-> call.min_amount_in + (i * TaskStep(call))],
           !.results = [i \in 0..intervals |-> Pending]]
    /\ UNCHANGED <<ovars, optimize_call, gate_call, flashloan_call, bundle_call>>

\* one spawned simulate_sandwich task runs to its end
SimulateSandwichTask ==
    /\ call.fn = "optimize"
    /\ call.pc = "tasks"
    /\ \E idx \in 0..intervals, sim \in SimOutcomes :
           /\ call.results[idx] = Pending
           /\ call' = [call EXCEPT
                  !.results[idx] = simulate_sandwich(idx, call.inputs[idx], call.reserve_in,
                                                     call.reserve_out, sim),
                  !.failed = @ \cup (IF sim.ok THEN {} ELSE {idx})]
    /\ UNCHANGED <<ovars, optimize_call, gate_call, flashloan_call, bundle_call>>

\* optimize, lines 1147-1184: join_all, then every result is unwrapped, which
\* panics on a JoinError; the best result is kept and the interval becomes the
\* neighbours of max_idx
OptimizeJoin ==
    /\ call.fn = "optimize"
    /\ call.pc = "tasks"
    /\ \A idx \in 0..intervals : call.results[idx] # Pending
    /\ IF \E idx \in 0..intervals : call.results[idx] = JoinError
       THEN call' = [call EXCEPT !.pc = "abort"]
       ELSE LET revenue == call.results
                best == PickBestResult(revenue, 0,
                            [optimized_in |-> call.optimized_in,
                             max_revenue |-> call.max_revenue,
                             max_front_gas_used |-> call.max_front_gas_used,
                             max_back_gas_used |-> call.max_back_gas_used,
                             max_front_calldata |-> call.max_front_calldata,
                             max_back_calldata |-> call.max_back_calldata,
                             max_idx |-> 0])
            IN  call' = [call EXCEPT
                    !.pc = "loop",
                    !.optimized_in = best.optimized_in,
                    !.max_revenue = best.max_revenue,
                    !.max_front_gas_used = best.max_front_gas_used,
                    !.max_back_gas_used = best.max_back_gas_used,
                    !.max_front_calldata = best.max_front_calldata,
                    !.max_back_calldata = best.max_back_calldata,
                    !.min_amount_in = IF best.max_idx = 0 THEN 0
                                      ELSE revenue[best.max_idx - 1].amount_in,
                    !.max_amount_in = IF best.max_idx = intervals
                                      THEN revenue[best.max_idx].amount_in
                                      ELSE revenue[best.max_idx + 1].amount_in]
    /\ UNCHANGED <<ovars, optimize_call, gate_call, flashloan_call, bundle_call>>

\* optimize, lines 1119-1215: the step is within the tolerance, the loop breaks and
\* the result is gated by the minimum profit
OptimizeBreak ==
    /\ call.fn = "optimize"
    /\ call.pc = "loop"
    /\ TaskStep(call) <= ScaledTolerance
    /\ call' = [call EXCEPT
           !.pc = "done",
           !.result = IF BelowThreshold(call.max_revenue) THEN ZeroedSandwich
                      ELSE [amount_in |-> call.optimized_in,
                            max_revenue |-> call.max_revenue,
                            front_gas_used |-> call.max_front_gas_used,
                            back_gas_used |-> call.max_back_gas_used,
                            front_calldata |-> call.max_front_calldata,
                            back_calldata |-> call.max_back_calldata]]
    /\ UNCHANGED <<ovars, optimize_call, gate_call, flashloan_call, bundle_call>>


\* ------------------------------------------------- the streams of main
\* the failures the node and the connection produce in one run, and the events the
\* broadcast channel holds before the oldest is overwritten
MaxFailures == 1
ChannelCapacity == 2

\* Sender::send on the broadcast channel: the oldest event is overwritten when the
\* channel is full
channel_send(queue_, event) ==
    IF Len(queue_) < ChannelCapacity THEN Append(queue_, event)
    ELSE Append(Tail(queue_), event)

\* the node mines a block
NodeBlock ==
    /\ call.fn = "streams"
    /\ call' = [call EXCEPT !.new_head = TRUE]
    /\ UNCHANGED <<ovars, optimize_call, gate_call, flashloan_call, bundle_call>>

\* stream_new_blocks, lines 58-64: subscribe_blocks; on Err the function returns Err
\* and the task spawned in main (125-129) prints it and ends
BlocksSubscribe ==
    /\ call.fn = "streams"
    /\ call.blocks_pc = "subscribe"
    /\ \/ call' = [call EXCEPT !.blocks_pc = "streaming"]
       \/ /\ call.failures > 0
          /\ call' = [call EXCEPT !.blocks_pc = "ended", !.failures = @ - 1]
    /\ UNCHANGED <<ovars, optimize_call, gate_call, flashloan_call, bundle_call>>

\* stream_new_blocks, lines 69-96: the next block of the subscription is sent
BlockSend ==
    /\ call.fn = "streams"
    /\ call.blocks_pc = "streaming"
    /\ call' = [call EXCEPT !.queue = channel_send(@, "block")]
    /\ UNCHANGED <<ovars, optimize_call, gate_call, flashloan_call, bundle_call>>

\* stream_new_blocks, lines 69 and 98-99: the subscription stream ends, the loop is
\* left and the function returns Ok
BlocksStreamEnd ==
    /\ call.fn = "streams"
    /\ call.blocks_pc = "streaming"
    /\ call.failures > 0
    /\ call' = [call EXCEPT !.blocks_pc = "ended", !.failures = @ - 1]
    /\ UNCHANGED <<ovars, optimize_call, gate_call, flashloan_call, bundle_call>>

\* stream_pending_txs, lines 119-131: subscribe_pending_txs; on Err the function
\* returns Err and the task spawned in main (116-120) prints it and ends
PendingSubscribe ==
    /\ call.fn = "streams"
    /\ call.pending_pc = "subscribe"
    /\ \/ call' = [call EXCEPT !.pending_pc = "streaming"]
       \/ /\ call.failures > 0
          /\ call' = [call EXCEPT !.pending_pc = "ended", !.failures = @ - 1]
    /\ UNCHANGED <<ovars, optimize_call, gate_call, flashloan_call, bundle_call>>

\* stream_pending_txs, lines 136-171: the next hash is looked up, classified as
\* something other than a transfer or an approval, and sent
PendingSend ==
    /\ call.fn = "streams"
    /\ call.pending_pc = "streaming"
    /\ call' = [call EXCEPT !.queue = channel_send(@, "pending")]
    /\ UNCHANGED <<ovars, optimize_call, gate_call, flashloan_call, bundle_call>>

\* stream_pending_txs, lines 148-155: an ETH transfer, an approve or a transfer is
\* skipped
PendingSkipped ==
    /\ call.fn = "streams"
    /\ call.pending_pc = "streaming"
    /\ call' = [call EXCEPT !.skipped = TRUE]
    /\ UNCHANGED <<ovars, optimize_call, gate_call, flashloan_call, bundle_call>>

\* stream_pending_txs, lines 172-179: get_transaction gives None or Err; the loop
\* goes on with the next hash
PendingLookupFailed ==
    /\ call.fn = "streams"
    /\ call.pending_pc = "streaming"
    /\ call.failures > 0
    /\ call' = [call EXCEPT !.failures = @ - 1]
    /\ UNCHANGED <<ovars, optimize_call, gate_call, flashloan_call, bundle_call>>

\* stream_pending_txs, lines 136 and 182-183: the subscription stream ends, the loop
\* is left and the function returns Ok
PendingStreamEnd ==
    /\ call.fn = "streams"
    /\ call.pending_pc = "streaming"
    /\ call.failures > 0
    /\ call' = [call EXCEPT !.pending_pc = "ended", !.failures = @ - 1]
    /\ UNCHANGED <<ovars, optimize_call, gate_call, flashloan_call, bundle_call>>

\* main, lines 66-111: one turn of the fallback poller; a block is sent when the
\* number is above the last one and the last one is not 0
FallbackPoll ==
    /\ call.fn = "streams"
    /\ \/ call' = [call EXCEPT
              !.queue = IF call.new_head /\ call.polled THEN channel_send(@, "block")
                        ELSE @,
              !.polled = TRUE,
              !.new_head = FALSE]
       \/ /\ call.failures > 0
          /\ call' = [call EXCEPT !.failures = @ - 1]
    /\ UNCHANGED <<ovars, optimize_call, gate_call, flashloan_call, bundle_call>>

\* the receiver of run_sandwich_strategy takes the oldest event
StreamRecv ==
    /\ call.fn = "streams"
    /\ call.queue # <<>>
    /\ call' = [call EXCEPT !.queue = Tail(@)]
    /\ UNCHANGED <<ovars, optimize_call, gate_call, flashloan_call, bundle_call>>


\* --------------------------- BatchSandwich::simulate: the pre-trade reserves
DexVariants == {"UniswapV2", "UniswapV3"}
ReserveSandwiches == [target_pair : TargetPairs, version : DexVariants]

\* the query of a variant: getReserves for UniswapV2, slot0 and liquidity for UniswapV3
OtherVariant(version) == IF version = "UniswapV2" THEN "UniswapV3" ELSE "UniswapV2"

\* the reserves a query returns are marked with the pool and the query
ReservesOf(pair, query) == [pair |-> pair, query |-> query]

\* simulate, lines 309-335: the query of the recorded variant, then on Err the query
\* of the other variant on the same address; answers says which queries succeed
reserves_with_fallback_C32(version, pair, answers) ==
    IF answers[pair][version] THEN Some(ReservesOf(pair, version)) ELSE Nothing

reserves_with_fallback(version, pair, answers) ==
    IF answers[pair][version] THEN Some(ReservesOf(pair, version))
    ELSE IF answers[pair][OtherVariant(version)]
         THEN Some(ReservesOf(pair, OtherVariant(version)))
         ELSE Nothing

\* simulate, lines 307-341: the reserves of the next sandwich are read and, when
\* there are any, inserted under its pair
ReadReservesBefore ==
    /\ call.fn = "reserves_before"
    /\ call.pc = "read"
    /\ call.i < Len(call.sandwiches)
    /\ LET sandwich == call.sandwiches[call.i + 1]
           reserves_opt == reserves_with_fallback(sandwich.version, sandwich.target_pair,
                                                  call.answers)
       IN  call' = [call EXCEPT
               !.i = @ + 1,
               !.reserves_before =
                   IF reserves_opt.some
                   THEN [@ EXCEPT ![sandwich.target_pair] = reserves_opt]
                   ELSE @]
    /\ UNCHANGED <<ovars, optimize_call, gate_call, flashloan_call, bundle_call>>

\* encode_frontrun_tx, lines 136-198: one trade entry per sandwich whose pair has
\* reserves; a sandwich without reserves is skipped
EncodeFrontrunEntries ==
    /\ call.fn = "reserves_before"
    /\ call.pc = "read"
    /\ call.i >= Len(call.sandwiches)
    /\ call' = [call EXCEPT
           !.pc = "encoded",
           !.entries = {k \in 1..Len(call.sandwiches) :
                           call.reserves_before[call.sandwiches[k].target_pair].some}]
    /\ UNCHANGED <<ovars, optimize_call, gate_call, flashloan_call, bundle_call>>


\* ------------------------------- the two block producers and the orchestrator
\* the node's head grows up to MaxNodeHead; the run starts at head 1
MaxNodeHead == 3

\* the node mines the next block
Mine ==
    /\ call.fn = "producers"
    /\ call.node_head < MaxNodeHead
    /\ call' = [call EXCEPT !.node_head = @ + 1]
    /\ UNCHANGED <<ovars, optimize_call, gate_call, flashloan_call, bundle_call>>

\* stream_new_blocks, lines 69-96: the subscription yields the next block of the
\* node and its number is sent
SubscriptionBlock ==
    /\ call.fn = "producers"
    /\ call.sub_next <= call.node_head
    /\ call' = [call EXCEPT !.queue = Append(@, call.sub_next), !.sub_next = @ + 1]
    /\ UNCHANGED <<ovars, optimize_call, gate_call, flashloan_call, bundle_call>>

\* main, lines 69-75 and 101: the poller reads the node's block number; a number
\* above the last one (when that is not 0) is a new block whose body it asks for
PollNumber ==
    /\ call.fn = "producers"
    /\ call.poll_pc = "sleep"
    /\ LET block_number_ == call.node_head
       IN  IF block_number_ > call.last_block_number /\ call.last_block_number # 0
           THEN call' = [call EXCEPT !.poll_pc = "get_block", !.polled = block_number_]
           ELSE call' = [call EXCEPT !.last_block_number = block_number_]
    /\ UNCHANGED <<ovars, optimize_call, gate_call, flashloan_call, bundle_call>>

\* main, lines 77-101: get_block returns and the Block event of the polled number is
\* sent, or it fails and nothing is sent
PollSend ==
    /\ call.fn = "producers"
    /\ call.poll_pc = "get_block"
    /\ \E ok \in BOOLEAN :
           call' = [call EXCEPT
               !.queue = IF ok THEN Append(@, call.polled) ELSE @,
               !.last_block_number = call.polled,
               !.poll_pc = "sleep"]
    /\ UNCHANGED <<ovars, optimize_call, gate_call, flashloan_call, bundle_call>>

\* run_sandwich_strategy, lines 189-235: the Block event is adopted as new_block and
\* the pending transactions are pruned by age; the U64 subtraction of line 233
\* aborts the task when an added_block is above the new head
AdoptBlock ==
    /\ call.fn = "producers"
    /\ call.queue # <<>>
    /\ ~call.aborted
    /\ LET n == Head(call.queue)
       IN  IF \E added_block \in call.added : added_block > n
           THEN call' = [call EXCEPT !.queue = Tail(@), !.aborted = TRUE, !.added = {}]
           ELSE call' = [call EXCEPT
                    !.queue = Tail(@),
                    !.new_block = n,
                    !.added = {added_block \in @ : KeepPending(n, added_block)}]
    /\ UNCHANGED <<ovars, optimize_call, gate_call, flashloan_call, bundle_call>>

\* run_sandwich_strategy, line 327: a pending transaction is stored with the number
\* of new_block as its added_block
AddPending ==
    /\ call.fn = "producers"
    /\ ~call.aborted
    /\ call' = [call EXCEPT !.added = @ \cup {call.new_block}]
    /\ UNCHANGED <<ovars, optimize_call, gate_call, flashloan_call, bundle_call>>


\* ------------------------------------- main_dish_v3: the bribe and the fee
\* the bribe_pct run_sandwich_strategy passes to main_dish_v3
BribePct == 9900

\* main_dish_v3, line 169: the bribe is a share of the simulated revenue
bribe_amount(revenue, bribe_pct) == (revenue * bribe_pct) \div BASIS_POINTS_DIVISOR

\* main_dish_v3, lines 157-245: the revenue gate, the bribe, the flash-loan fee and
\* its gate, then create_flashloan_sando_bundle, whose result is bundle
BribeAndFee ==
    /\ call.fn = "main_dish_v3"
    /\ call.pc = "call"
    /\ LET gate == FeeGate(call.revenue, call.amount_in)
           accepted == gate.stage = "accepted"
       IN  call' = [call EXCEPT
               !.pc = "done",
               !.bribe_amount = IF call.revenue > 0
                                THEN bribe_amount(call.revenue, call.bribe_pct) ELSE 0,
               !.flashloan_fee = IF call.revenue > 0
                                 THEN calculate_flashloan_fee(call.amount_in) ELSE 0,
               !.built = accepted /\ call.bundle = "ok"]
    /\ UNCHANGED <<ovars, optimize_call, gate_call, flashloan_call, bundle_call>>

\* --------------------------------------------------------- specifications
Unused == [pc |-> "unused"]

\* the state after the startup of run_sandwich_strategy; the startup head is block 0
InitOrchestrator ==
    /\ pc = "idle"
    /\ new_block = [block_number |-> 0, base_fee |-> BaseFeeOf(0)]
    /\ pending_txs = EmptyMap
    /\ promising_sandwiches = EmptyMap
    /\ simulated_bundle_ids = <<>>
    /\ queue = <<>>
    /\ sent = [h \in Hashes |-> 0]
    /\ last = [kind |-> "init"]

\* the orchestrator under every event
Init ==
    /\ InitOrchestrator
    /\ watch = FALSE
    /\ optimize_call = Unused
    /\ gate_call = Unused
    /\ flashloan_call = Unused
    /\ bundle_call = Unused
    /\ call = Unused

Next ==
    \/ BlockEvent
    \/ BlockEventNoBody
    \/ RecvError
    \/ PendingTransactionNoSwap
    \/ PendingTransactionSwap
    \/ MainDishStep

Spec == Init /\ [][Next]_vars

\* the orchestrator observed, with an appetizer that finds nothing promising
InitEvents ==
    /\ InitOrchestrator
    /\ watch = TRUE
    /\ optimize_call = Unused
    /\ gate_call = Unused
    /\ flashloan_call = Unused
    /\ bundle_call = Unused
    /\ call = Unused

NextEvents ==
    \/ BlockEvent
    \/ BlockEventNoBody
    \/ RecvError
    \/ PendingTransactionNoSwap
    \/ PendingTransactionUnpromising

SpecEvents == InitEvents /\ [][NextEvents]_vars

\* the orchestrator observed, between two blocks
NextDish ==
    \/ RecvError
    \/ PendingTransactionNoSwap
    \/ PendingTransactionSwap
    \/ MainDishStep

SpecDish == InitEvents /\ [][NextDish]_vars

\* one call of Sandwich::optimize on a new Sandwich, for every ceiling
InitOptimize ==
    /\ InitOrchestrator
    /\ watch = FALSE
    /\ optimize_call \in {[pc |-> "loop", min_amount_in |-> 0, max_amount_in |-> ceiling,
                           optimized_in |-> 0, max_revenue |-> 0, max_calldata |-> <<>>,
                           result |-> NoSandwich, optimized_sandwich |-> NoSandwich] :
                          ceiling \in OptCeilings}
    /\ gate_call = Unused
    /\ flashloan_call = Unused
    /\ bundle_call = Unused
    /\ call = Unused

NextOptimize ==
    \/ OptimizeRound
    \/ OptimizeReturn

SpecOptimize == InitOptimize /\ [][NextOptimize]_vars

\* the fee gate on every verified revenue and borrowed amount
InitGate ==
    /\ InitOrchestrator
    /\ watch = FALSE
    /\ optimize_call = Unused
    /\ gate_call \in {[pc |-> "call", amount_in |-> amount_in, revenue |-> revenue,
                       bundle |-> bundle,
                       result |-> [accepted |-> FALSE, built |-> FALSE,
                                   adjusted_revenue |-> 0]] :
                      amount_in \in GateAmounts, revenue \in GateRevenues,
                      bundle \in {"ok", "err"}}
    /\ flashloan_call = Unused
    /\ bundle_call = Unused
    /\ call = Unused

SpecGate == InitGate /\ [][GateCall]_vars

\* create_flashloan_sandwich_tx on the calldata of BatchSandwich::simulate and on
\* calldata that carries a selector
InitFlashloan ==
    /\ InitOrchestrator
    /\ watch = FALSE
    /\ optimize_call = Unused
    /\ gate_call = Unused
    /\ flashloan_call \in
           {[pc |-> "call", source |-> source, a |-> a, b |-> b, common |-> common,
             next_block_number |-> n,
             front_calldata |-> IF source = "simulate" THEN encode_frontrun_tx(n, a)
                                ELSE WithSelector(TradeEntries(1, 10, a)),
             back_calldata |-> IF source = "simulate" THEN encode_backrun_tx(n, b)
                               ELSE WithSelector(TradeEntries(0, 20, b)),
             sandwich_data |-> <<>>, result |-> "none"] :
            source \in {"simulate", "selector"}, a \in 0..MaxEntries, b \in 0..MaxEntries,
            common \in {"ok", "err"}, n \in 1..2}
    /\ bundle_call = Unused
    /\ call = Unused

SpecFlashloan == InitFlashloan /\ [][FlashloanTx]_vars

\* create_sando_bundle on every owner, nonce and fee
InitBundle ==
    /\ InitOrchestrator
    /\ watch = FALSE
    /\ optimize_call = Unused
    /\ gate_call = Unused
    /\ flashloan_call = Unused
    /\ bundle_call \in
           {[pc |-> "call", common |-> common, owner |-> owner, nonce |-> nonce,
             base_fee |-> base_fee, max_priority_fee_per_gas |-> priority,
             max_fee_per_gas |-> base_fee + priority, result |-> NoBundle] :
            common \in {"ok", "err"}, owner \in Owners, nonce \in 0..MaxNonce,
            base_fee \in Fees, priority \in Fees}
    /\ call = Unused

SpecBundle == InitBundle /\ [][SandoBundle]_vars

InitRequest ==
    /\ InitOrchestrator
    /\ watch = FALSE
    /\ optimize_call = Unused
    /\ gate_call = Unused
    /\ flashloan_call = Unused
    /\ bundle_call = Unused
    /\ call \in
           {[fn |-> "to_sando_bundle_request", pc |-> "call",
             sando_bundle |-> [frontrun_tx |-> [role |-> "frontrun", tx_hash |-> 0],
                               victim_txs |-> [i \in 1..Len(victims) |->
                                                  [role |-> "victim", tx_hash |-> victims[i]]],
                               backrun_tx |-> [role |-> "backrun", tx_hash |-> 0]],
             block |-> block, retries |-> retries,
             sign_front |-> sign_front, sign_back |-> sign_back, result |-> NoRequest] :
            victims \in SeqsUpTo(Hashes, MaxVictims), block \in BlockNumbers,
            retries \in 0..MaxRetries,
            sign_front \in {"ok", "err"}, sign_back \in {"ok", "err"}}

\* to_sando_bundle_request on every bundle, block and retry count
SpecRequest == InitRequest /\ [][BundleRequest]_vars

InitGasLimit ==
    /\ InitOrchestrator
    /\ watch = FALSE
    /\ optimize_call = Unused
    /\ gate_call = Unused
    /\ flashloan_call = Unused
    /\ bundle_call = Unused
    /\ call \in
           {[fn |-> "gas_limit", pc |-> "call", front_gas_used |-> front,
             back_gas_used |-> back, result |-> 0] :
            front \in 0..MaxGas, back \in 0..MaxGas}

\* the gas limit for every pair of simulated gas figures
SpecGasLimit == InitGasLimit /\ [][GasLimit]_vars

InitBroadcast ==
    /\ InitOrchestrator
    /\ watch = FALSE
    /\ optimize_call = Unused
    /\ gate_call = Unused
    /\ flashloan_call = Unused
    /\ bundle_call = Unused
    /\ call \in
           {[fn |-> "broadcast_bundle", pc |-> "join",
             requests |-> [builder \in Builders |-> "running"],
             returned |-> "none", response_map |-> EmptyMap]}

NextBroadcast ==
    \/ SendBundle
    \/ BroadcastReturn

\* broadcast_bundle with one task per builder, ending in any order
SpecBroadcast == InitBroadcast /\ [][NextBroadcast]_vars

InitExtract ==
    /\ InitOrchestrator
    /\ watch = FALSE
    /\ optimize_call = Unused
    /\ gate_call = Unused
    /\ flashloan_call = Unused
    /\ bundle_call = Unused
    /\ call \in
           {[fn |-> "extract_swap_info", pc |-> "classify", tx |-> tx, tx_kind |-> "",
             router_code |-> Nothing, pool_code |-> Nothing, path |-> "", trace |-> Nothing, receipt |-> Nothing,
             swap_info_vec |-> <<>>, result |-> <<>>] : tx \in PendingTxs}

NextExtract ==
    \/ ClassifyTransaction
    \/ TraceCall
    \/ DecodeInput
    \/ ReceiptFallback

\* extract_swap_info on one pending transaction, with every answer of the node
SpecExtract == InitExtract /\ [][NextExtract]_vars

InitAmountOut ==
    /\ InitOrchestrator
    /\ watch = FALSE
    /\ optimize_call = Unused
    /\ gate_call = Unused
    /\ flashloan_call = Unused
    /\ bundle_call = Unused
    /\ call \in
           {[fn |-> "get_v2_amount_out", pc |-> "start", reserve_in |-> reserve_in,
             reserve_out |-> reserve_out, amount_in |-> <<>>, amount_out |-> <<>>] :
            reserve_in \in 0..MaxReserve, reserve_out \in 0..MaxReserve}

\* get_v2_amount_out on every pair of amounts and every pair of reserves
SpecAmountOut == InitAmountOut /\ [][AmountOut]_vars

InitDoubled ==
    /\ InitOrchestrator
    /\ watch = FALSE
    /\ optimize_call = Unused
    /\ gate_call = Unused
    /\ flashloan_call = Unused
    /\ bundle_call = Unused
    /\ call \in
           {[fn |-> "get_v2_amount_out", pc |-> "reserves", amount_in |-> amount_in,
             reserve_in |-> reserve_in, reserve_out |-> reserve_out,
             amount_out |-> <<>>] :
            amount_in \in 0..MaxAmountIn, reserve_in \in 0..MaxReserve,
            reserve_out \in 0..MaxReserve}

\* get_v2_amount_out on every amount and every pair of reserves, doubled and not
SpecDoubled == InitDoubled /\ [][AmountOutDoubled]_vars

InitBaseFee ==
    /\ InitOrchestrator
    /\ watch = FALSE
    /\ optimize_call = Unused
    /\ gate_call = Unused
    /\ flashloan_call = Unused
    /\ bundle_call = Unused
    /\ call \in
           {[fn |-> "calculate_next_block_base_fee", pc |-> "start",
             gas_used |-> gas_used, gas_limit |-> block_gas_limit,
             base_fee_per_gas |-> base_fee_per_gas, seed |-> 0, result |-> Nothing] :
            gas_used \in 0..MaxGasUsed, block_gas_limit \in 0..MaxGasLimit,
            base_fee_per_gas \in 0..MaxBaseFee}

\* calculate_next_block_base_fee on every block shape and every seed
SpecBaseFee == InitBaseFee /\ [][NextBlockBaseFee]_vars

InitPools ==
    /\ InitOrchestrator
    /\ watch = FALSE
    /\ optimize_call = Unused
    /\ gate_call = Unused
    /\ flashloan_call = Unused
    /\ bundle_call = Unused
    /\ call \in
           {[fn |-> "load_all_pools", chain |-> chain, runs |-> 0, file_exists |-> FALSE,
             cache |-> <<>>, before |-> <<>>, pools |-> <<>>, last_id |-> -1,
             returned |-> "none", skipped |-> FALSE] : chain \in Chains}

NextPools ==
    \/ LoadAllPools
    \/ LoadAllPoolsConnectError

\* runs of load_all_pools one after the other on one cache file
SpecPools == InitPools /\ [][NextPools]_vars

InitFetch ==
    /\ InitOrchestrator
    /\ watch = FALSE
    /\ optimize_call = Unused
    /\ gate_call = Unused
    /\ flashloan_call = Unused
    /\ bundle_call = Unused
    /\ call \in
           {[fn |-> "fetch_token_info", pc |-> "idle", fetches |-> 0,
             tokens |-> DefaultTokens, address |-> "", known |-> FALSE, calls |-> 0,
             answers |-> <<>>, name |-> "", symbol |-> "", decimals |-> 0,
             returned |-> "none", result |-> Nothing]}

NextFetch ==
    \/ FetchTokenInfo
    \/ FetchName
    \/ FetchSymbol
    \/ FetchDecimals

\* fetch_token_info called again and again on one registry
SpecFetch == InitFetch /\ [][NextFetch]_vars

InitRefresh ==
    /\ InitOrchestrator
    /\ watch = FALSE
    /\ optimize_call = Unused
    /\ gate_call = Unused
    /\ flashloan_call = Unused
    /\ bundle_call = Unused
    /\ call \in
           {[fn |-> "update_prices_from_chainlink", pc |-> "start", i |-> 0,
             read_guard |-> FALSE, answers |-> <<>>, prices |-> 0, saved |-> FALSE,
             users |-> [u \in Users |-> "idle"]]}

NextRefresh ==
    \/ RefreshRead
    \/ FeedAnswer
    \/ UpdatePrice
    \/ SaveToCache
    \/ UserRequest
    \/ UserGrant
    \/ UserRelease

\* one price refresh next to the users of the registry
SpecRefresh == InitRefresh /\ [][NextRefresh]_vars

InitSimulate ==
    /\ InitOrchestrator
    /\ watch = FALSE
    /\ optimize_call = Unused
    /\ gate_call = Unused
    /\ flashloan_call = Unused
    /\ bundle_call = Unused
    /\ call \in
           {[fn |-> "simulate", batch |-> b, base_fee |-> f,
             simulators |-> [s \in SimTasks |-> NoSimulator],
             runs |-> [t \in SimTasks |-> [pc |-> "new", simulator |-> 0, i |-> 0,
                                           victim_txs |-> <<>>, trace |-> <<>>]]] :
               b \in SimBatches, f \in 0..MaxSimBaseFee}

NextSimulate ==
    \/ SimulateNew
    \/ SimulateReservesBefore
    \/ SimulateFrontrun
    \/ SimulateVictim
    \/ SimulateReservesAfter
    \/ SimulateBackrun
    \/ SimulateReturn

\* the parallel runs of BatchSandwich::simulate on one batch
SpecSimulate == InitSimulate /\ [][NextSimulate]_vars

InitOptimizeTasks ==
    /\ InitOrchestrator
    /\ watch = FALSE
    /\ optimize_call = Unused
    /\ gate_call = Unused
    /\ flashloan_call = Unused
    /\ bundle_call = Unused
    /\ call \in
           {[fn |-> "optimize", pc |-> "loop", round |-> 0,
             min_amount_in |-> 0, max_amount_in |-> ceiling,
             reserve_in |-> rin, reserve_out |-> rout,
             optimized_in |-> 0, max_revenue |-> 0, max_front_gas_used |-> 0,
             max_back_gas_used |-> 0, max_front_calldata |-> <<>>,
             max_back_calldata |-> <<>>,
             inputs |-> [i \in 0..intervals |-> 0],
             results |-> [i \in 0..intervals |-> Pending],
             failed |-> {}, result |-> NoSandwich] :
               ceiling \in TaskCeilings, rin \in {1}, rout \in TaskReserves}

NextOptimizeTasks ==
    \/ OptimizeSpawn
    \/ SimulateSandwichTask
    \/ OptimizeJoin
    \/ OptimizeBreak

\* Sandwich::optimize with its parallel simulate_sandwich tasks
SpecOptimizeTasks == InitOptimizeTasks /\ [][NextOptimizeTasks]_vars

InitStreams ==
    /\ InitOrchestrator
    /\ watch = FALSE
    /\ optimize_call = Unused
    /\ gate_call = Unused
    /\ flashloan_call = Unused
    /\ bundle_call = Unused
    /\ call \in
           {[fn |-> "streams", blocks_pc |-> "subscribe", pending_pc |-> "subscribe",
             failures |-> f, polled |-> FALSE, new_head |-> FALSE, skipped |-> FALSE,
             queue |-> <<>>] : f \in 0..MaxFailures}

NextStreams ==
    \/ NodeBlock
    \/ BlocksSubscribe
    \/ BlockSend
    \/ BlocksStreamEnd
    \/ PendingSubscribe
    \/ PendingSend
    \/ PendingSkipped
    \/ PendingLookupFailed
    \/ PendingStreamEnd
    \/ FallbackPoll
    \/ StreamRecv

\* the three producer tasks of main and the receiver: every task is scheduled again
\* and again, and the node keeps producing blocks and transactions that are sent
SpecStreams ==
    /\ InitStreams
    /\ [][NextStreams]_vars
    /\ WF_vars(NodeBlock)
    /\ WF_vars(BlocksSubscribe)
    /\ WF_vars(PendingSubscribe)
    /\ WF_vars(FallbackPoll)
    /\ WF_vars(StreamRecv)
    /\ SF_vars(BlockSend)
    /\ SF_vars(PendingSend)

InitReserves ==
    /\ InitOrchestrator
    /\ watch = FALSE
    /\ optimize_call = Unused
    /\ gate_call = Unused
    /\ flashloan_call = Unused
    /\ bundle_call = Unused
    /\ call \in
           {[fn |-> "reserves_before", pc |-> "read", i |-> 0, sandwiches |-> ss,
             answers |-> a, reserves_before |-> [p \in TargetPairs |-> Nothing],
             entries |-> {}] :
               ss \in UNION {[1..n -> ReserveSandwiches] : n \in 1..MaxSandwiches},
               a \in [TargetPairs -> [DexVariants -> BOOLEAN]]}

NextReserves ==
    \/ ReadReservesBefore
    \/ EncodeFrontrunEntries

\* the reserves loop of simulate and the entries of the frontrun, for every batch
\* and every answer of the two queries
SpecReserves == InitReserves /\ [][NextReserves]_vars

\* Sandwich::optimize runs on: a call that can take a step takes one
SpecOptimizeFair ==
    /\ InitOptimize
    /\ [][NextOptimize]_vars
    /\ WF_vars(OptimizeRound)
    /\ WF_vars(OptimizeReturn)

InitProducers ==
    /\ InitOrchestrator
    /\ watch = FALSE
    /\ optimize_call = Unused
    /\ gate_call = Unused
    /\ flashloan_call = Unused
    /\ bundle_call = Unused
    /\ call \in
           {[fn |-> "producers", node_head |-> 1, sub_next |-> 2, poll_pc |-> "sleep",
             last_block_number |-> 0, polled |-> 0, queue |-> <<>>, new_block |-> 1,
             added |-> {}, aborted |-> FALSE]}

NextProducers ==
    \/ Mine
    \/ SubscriptionBlock
    \/ PollNumber
    \/ PollSend
    \/ AdoptBlock
    \/ AddPending

\* the subscription task, the fallback poller and the orchestrator on one channel
SpecProducers == InitProducers /\ [][NextProducers]_vars

InitBribe ==
    /\ InitOrchestrator
    /\ watch = FALSE
    /\ optimize_call = Unused
    /\ gate_call = Unused
    /\ flashloan_call = Unused
    /\ bundle_call = Unused
    /\ call \in
           {[fn |-> "main_dish_v3", pc |-> "call", amount_in |-> amount_in,
             revenue |-> revenue, bribe_pct |-> BribePct, bundle |-> bundle,
             bribe_amount |-> 0, flashloan_fee |-> 0, built |-> FALSE] :
               amount_in \in GateAmounts, revenue \in GateRevenues,
               bundle \in {"ok", "err"}}

\* the bribe and the fee for every verified revenue and borrowed amount
SpecBribe == InitBribe /\ [][BribeAndFee]_vars

\* the orchestrator between two Block events, once the bounded deque has dropped
\* the id of a victim: tx_hash was recorded, left pending_txs (its receipt was
\* found, or it was flushed as too old) and BundleIdCapacity later victims pushed
\* their ids; their own map entries, which the first loop of main_dish_v3 skips by
\* id, are left out
InitStale ==
    /\ pc = "idle"
    /\ new_block = [block_number |-> 1, base_fee |-> BaseFeeOf(1)]
    /\ pending_txs = EmptyMap
    /\ \E tx_hash \in Hashes, sandwich \in Sandwiches :
           promising_sandwiches = Insert(EmptyMap, tx_hash, <<sandwich>>)
    /\ simulated_bundle_ids = [i \in 1..BundleIdCapacity |-> bundle_id(NumTx + i)]
    /\ queue = <<>>
    /\ sent = [h \in Hashes |-> 0]
    /\ last = [kind |-> "init"]
    /\ watch = TRUE
    /\ optimize_call = Unused
    /\ gate_call = Unused
    /\ flashloan_call = Unused
    /\ bundle_call = Unused
    /\ call = Unused

SpecStale == InitStale /\ [][NextDish]_vars

\* ------------------------------------------------------------------ claims
\* C1: between two events every entry of pending_txs is at most 3 blocks older
\* than the head: head - added_block <= 3
C1_PendingAgeBounded ==
    pc = "idle" =>
        \A h \in DOMAIN pending_txs :
            new_block.block_number - pending_txs[h].added_block <= 3

\* a Block event left an entry that is two blocks old
C1_Witness ==
    /\ pc = "idle"
    /\ last.kind = "block"
    /\ \E h \in DOMAIN pending_txs :
           new_block.block_number - pending_txs[h].added_block = 2

\* C2: a PendingTransaction event for a transaction that has a receipt is a
\* rejection: the transaction is not stored and neither the extractor nor the
\* appetizer runs on it
C2_MinedIsRejected ==
    (last.kind = "pending" /\ last.mined) =>
        /\ last.tx_hash \notin DOMAIN pending_txs
        /\ ~last.stored
        /\ ~last.extractor
        /\ ~last.appetizer

\* C3: a transaction is stored in pending_txs or handed to the appetizer only if it
\* passed the gas gate: a legacy transaction has gas_price >= base_fee, a type 2
\* transaction has max_fee_per_gas >= base_fee
C3_StoredPassedGasGate ==
    (last.kind = "pending" /\ (last.stored \/ last.appetizer)) =>
        /\ last.tx.transaction_type = 0 => last.tx.gas_price >= new_block.base_fee
        /\ last.tx.transaction_type = 2 => last.tx.max_fee_per_gas >= new_block.base_fee

C5_ThresholdOrZeroed ==
    optimize_call.pc = "done" =>
        /\ \/ /\ optimize_call.result.max_revenue >= 200
              /\ optimize_call.result.amount_in = optimize_call.optimized_in
              /\ optimize_call.optimized_sandwich = optimize_call.result
           \/ /\ optimize_call.result = Zeroed
              /\ optimize_call.optimized_sandwich = NoSandwich
        /\ optimize_call.max_revenue = 190 =>
               /\ optimize_call.result = Zeroed
               /\ optimize_call.optimized_sandwich = NoSandwich

\* the search ended with a best revenue of 1.9 * 10^16 wei
C5_Witness ==
    /\ optimize_call.pc = "done"
    /\ optimize_call.max_revenue = 190
    /\ optimize_call.optimized_in > 0

\* C6: on the calldata of BatchSandwich::simulate (8 + 105 a and 8 + 105 b bytes,
\* a + b >= 1) the blob of create_flashloan_sandwich_tx is the block number and
\* a + b entries of 105 bytes, so its length L has L > 8 and (L - 8) mod 105 = 0, and
\* the transaction is built
C6_BlobWellFormed ==
    (/\ flashloan_call.pc = "done"
     /\ flashloan_call.source = "simulate"
     /\ flashloan_call.common = "ok"
     /\ flashloan_call.a + flashloan_call.b >= 1) =>
        /\ Len(flashloan_call.sandwich_data) > 8
        /\ (Len(flashloan_call.sandwich_data) - 8) % 105 = 0
        /\ Len(flashloan_call.sandwich_data) = 8 + 105 * (flashloan_call.a + flashloan_call.b)
        /\ flashloan_call.result = "built"

C8_RemovedIffOlderThanThree ==
    [][(last'.kind = "block") =>
          \A h \in DOMAIN pending_txs \ last'.txs :
              (h \notin DOMAIN pending_txs') <=>
                  (new_block'.block_number - pending_txs[h].added_block > 3)]_vars

\* C9: after a Block event every key of promising_sandwiches is a key of
\* pending_txs
C9_PromisingSubsetOfPending ==
    last.kind = "block" => DOMAIN promising_sandwiches \subseteq DOMAIN pending_txs

\* a Block event kept the sandwiches of one victim while another victim is not
\* pending
C9_Witness ==
    /\ last.kind = "block"
    /\ DOMAIN promising_sandwiches # {}
    /\ DOMAIN pending_txs # Hashes

\* C10: a bundle of create_sando_bundle has an EIP-1559 frontrun and an EIP-1559
\* backrun from the same owner, the backrun nonce is the frontrun nonce + 1, the
\* frontrun priority fee is 0 and the backrun has the caller's priority fee
C10_BundleShape ==
    (bundle_call.pc = "done" /\ bundle_call.common = "ok") =>
        LET bundle == bundle_call.result
        IN  /\ bundle.frontrun_tx.type = "Eip1559"
            /\ bundle.backrun_tx.type = "Eip1559"
            /\ bundle.frontrun_tx.from = bundle.backrun_tx.from
            /\ bundle.frontrun_tx.from = bundle_call.owner
            /\ bundle.backrun_tx.nonce = bundle.frontrun_tx.nonce + 1
            /\ bundle.frontrun_tx.max_priority_fee_per_gas = 0
            /\ bundle.backrun_tx.max_priority_fee_per_gas =
                   bundle_call.max_priority_fee_per_gas

\* a bundle was returned for a priority fee above 0
C10_Witness ==
    /\ bundle_call.pc = "done"
    /\ bundle_call.common = "ok"
    /\ bundle_call.max_priority_fee_per_gas > 0
    /\ bundle_call.result.backrun_tx.nonce = bundle_call.nonce + 1

\* C11: the request of to_sando_bundle_request lists the signed frontrun first, then
\* the victims in the order given, then the signed backrun last, and its target
\* block is block_number + retries
C11_RequestOrder ==
    (call.fn = "to_sando_bundle_request" /\ call.pc = "done" /\ call.result # NoRequest) =>
        LET txs == call.result.transactions
            victim_txs == call.sando_bundle.victim_txs
        IN  /\ Len(txs) = Len(victim_txs) + 2
            /\ txs[1] = [tx |-> call.sando_bundle.frontrun_tx, signed |-> "owner"]
            /\ txs[Len(txs)] = [tx |-> call.sando_bundle.backrun_tx, signed |-> "owner"]
            /\ \A i \in 1..Len(victim_txs) : txs[i + 1].tx = victim_txs[i]
            /\ \A i \in 1..Len(txs) :
                   txs[i].tx.role = "victim" <=> (1 < i /\ i < Len(txs))
            /\ call.result.block = call.block + call.retries

\* a request for two different victims and a retry
C11_Witness ==
    /\ call.fn = "to_sando_bundle_request"
    /\ call.pc = "done"
    /\ call.result # NoRequest
    /\ call.retries > 0
    /\ Len(call.sando_bundle.victim_txs) = 2
    /\ call.sando_bundle.victim_txs[1] # call.sando_bundle.victim_txs[2]
    /\ call.result.transactions[2].tx = call.sando_bundle.victim_txs[1]

C13_BroadcastKeys ==
    /\ (call.fn = "broadcast_bundle" /\ call.pc = "done") =>
           /\ call.returned = "Ok"
           /\ DOMAIN call.response_map =
                  {builder \in Builders : call.requests[builder] \in {"ok_some", "ok_none"}}
    /\ (call.fn = "broadcast_bundle" /\ call.pc = "join") => call.returned = "none"

\* one relay failed, one task aborted and the third builder's response was collected
C13_Witness ==
    /\ call.fn = "broadcast_bundle"
    /\ call.pc = "done"
    /\ call.requests[1] = "err"
    /\ call.requests[2] = "abort"
    /\ call.requests[3] = "ok_some"
    /\ DOMAIN call.response_map = {3}

\* C14: the list extract_swap_info returns never holds two SwapInfo records with
\* the same target_pair, whichever path produced it (trace logs, router path,
\* receipt logs).
C14_NoDuplicatePairs ==
    (call.fn = "extract_swap_info" /\ call.pc = "done") =>
        \A i, j \in 1..Len(call.result) :
            i # j => call.result[i].target_pair # call.result[j].target_pair

\* C15: on the trace path a SwapInfo is built from a log only if a registered pool
\* emitted the log and its topic0 is the v2 Swap event: every returned record has a
\* Swap log of its pool in the trace, and a trace without a Swap log at a registered
\* pool gives no record.
C15_TraceOnlySwapLogs ==
    (call.fn = "extract_swap_info" /\ call.pc = "done" /\ call.path = "trace"
     /\ call.trace.some) =>
        LET logs == extract_logs(call.trace.value)
        IN  \A k \in 1..Len(call.result) :
                \E i \in 1..Len(logs) :
                    /\ logs[i].address = call.result[k].target_pair
                    /\ logs[i].address \in DOMAIN pools_map
                    /\ logs[i].topics[1] = "Swap"

\* C16: for a router call with a decoded two-token path (tokenIn, tokenOut) whose
\* pool is registered and has a main-currency side, the one SwapInfo returned has
\* that side as main_currency, token0_is_main exactly when that side is
\* pool.token0, and direction Buy exactly when tokenIn is the main currency; the
\* path [WETH, USDC] on the USDC/WETH pool gives main WETH, Buy, token0_is_main
\* false.
C16_RouterMainAndDirection ==
    (/\ call.fn = "extract_swap_info"
     /\ call.pc = "done"
     /\ call.path = "calldata"
     /\ is_known_swap_selector(call.tx.input.selector)
     /\ Len(call.tx.input.path) = 2
     /\ get_token_paths(call.tx.input) # <<>>) =>
        LET token_in == call.tx.input.path[1]
            found == get_pool_by_tokens(token_in, call.tx.input.path[2])
        IN  \A pair_address \in found :
                LET pool == pools_map[pair_address]
                    pair == return_main_and_target_currency(pool.token0, pool.token1)
                IN  pair.some =>
                        /\ Len(call.result) = 1
                        /\ call.result[1].target_pair \in found
                        /\ call.result[1].main_currency = pair.value[1]
                        /\ call.result[1].token0_is_main = (pair.value[1] = pool.token0)
                        /\ call.result[1].direction =
                               (IF token_in = pair.value[1] THEN "Buy" ELSE "Sell")

\* C17: a pending transaction sent directly to a registered pool neither of whose
\* tokens is a main currency gives an empty list.
C17_NoMainNoSwapInfo ==
    (/\ call.fn = "extract_swap_info"
     /\ call.pc = "done"
     /\ call.tx.to \in DOMAIN pools_map
     /\ ~is_main_currency(pools_map[call.tx.to].token0)
     /\ ~is_main_currency(pools_map[call.tx.to].token1)) =>
        call.result = <<>>

\* C18 as stated: classify_transaction returns Other for every transaction whose
\* calldata is not empty and shorter than four bytes, whatever its destination and
\* whatever code the destination holds.
C18_ShortCalldataIsOther ==
    (/\ call.fn = "extract_swap_info"
     /\ call.pc # "classify"
     /\ call.tx.input.len > 0
     /\ call.tx.input.len < 4) =>
        call.tx_kind = "Other"

\* C18 amended: for calldata that is not empty and shorter than four bytes,
\* classify_transaction returns Swap when the destination is a known router or
\* its code is longer than 1000 bytes or looks like a pair's (100 bytes or more
\* with the token0() and token1() selectors), and Other in every other case.
C18_ShortCalldataOtherUnlessSwapLike ==
    (/\ call.fn = "extract_swap_info"
     /\ call.pc # "classify"
     /\ call.tx.input.len > 0
     /\ call.tx.input.len < 4) =>
        LET swap_like ==
                /\ call.tx.to # NoAddress
                /\ \/ is_known_router(call.tx.to)
                   \/ call.router_code.some /\ is_router_like(call.router_code.value)
                   \/ call.pool_code.some /\ is_pool_contract(call.pool_code.value)
        IN  call.tx_kind = (IF swap_like THEN "Swap" ELSE "Other")

\* a three-byte call to a contract whose code is too short for both heuristics was
\* classified Other
C18_Witness ==
    /\ call.fn = "extract_swap_info"
    /\ call.pc = "classified"
    /\ call.tx.input.len = 3
    /\ call.tx.to = "wallet"
    /\ call.router_code = Some(Code(99, TRUE, TRUE))
    /\ call.pool_code = Some(Code(99, TRUE, TRUE))
    /\ call.tx_kind = "Other"

\* C19 as stated: classify_transaction returns EthTransfer for every transaction
\* with empty calldata and a value that is not zero, whatever its destination.
C19_EmptyCalldataIsEthTransfer ==
    (/\ call.fn = "extract_swap_info"
     /\ call.pc # "classify"
     /\ call.tx.input.len = 0
     /\ call.tx.value # 0) =>
        call.tx_kind = "EthTransfer"

\* C19 amended: a transaction with empty calldata and a value that is not zero is
\* classified EthTransfer unless its destination is a known router, and Swap when
\* it is; the code of the destination is not asked for.
C19_EmptyCalldataEthTransferUnlessRouter ==
    (/\ call.fn = "extract_swap_info"
     /\ call.pc # "classify"
     /\ call.tx.input.len = 0
     /\ call.tx.value # 0) =>
        /\ call.tx_kind =
               (IF call.tx.to # NoAddress /\ is_known_router(call.tx.to)
                THEN "Swap" ELSE "EthTransfer")
        /\ call.router_code = Nothing
        /\ call.pool_code = Nothing

\* a plain payment to a registered pool was classified EthTransfer
C19_Witness ==
    /\ call.fn = "extract_swap_info"
    /\ call.pc = "classified"
    /\ call.tx.input.len = 0
    /\ call.tx.value = 1
    /\ call.tx.to = "pool1"
    /\ call.tx_kind = "EthTransfer"

\* C20 as stated: for fixed positive reserves get_v2_amount_out is strictly
\* increasing in the input amount, and it is 0 for the amount 0.
C20_AmountOutStrictlyIncreasing ==
    (/\ call.fn = "get_v2_amount_out"
     /\ call.pc = "done"
     /\ call.reserve_in > 0
     /\ call.reserve_out > 0) =>
        /\ (call.amount_out[1].some /\ call.amount_out[2].some) =>
               call.amount_out[1].value < call.amount_out[2].value
        /\ call.amount_in[1] = 0 => call.amount_out[1] = Some(0)

\* C20 amended: for fixed positive reserves get_v2_amount_out never decreases when
\* the input amount grows, as far as both calls return (their products fit the
\* integer width), and it is 0 for the amount 0.
C20_AmountOutNeverDecreases ==
    (/\ call.fn = "get_v2_amount_out"
     /\ call.pc = "done"
     /\ call.reserve_in > 0
     /\ call.reserve_out > 0) =>
        /\ (call.amount_out[1].some /\ call.amount_out[2].some) =>
               call.amount_out[1].value <= call.amount_out[2].value
        /\ call.amount_in[1] = 0 => call.amount_out[1] = Some(0)

\* on reserves 1 and 4 the amounts 1 and 2 gave 1 and 2
C20_Witness ==
    /\ call.fn = "get_v2_amount_out"
    /\ call.pc = "done"
    /\ call.reserve_in = 1
    /\ call.reserve_out = 4
    /\ call.amount_in = <<1, 2>>
    /\ call.amount_out = <<Some(1), Some(2)>>

\* C21 as stated: doubling both reserves leaves the amount out unchanged, for every
\* amount and every pair of reserves.
C21_DoubledReservesSameOut ==
    (/\ call.fn = "get_v2_amount_out"
     /\ call.pc = "done"
     /\ call.amount_out[1].some
     /\ call.amount_out[2].some) =>
        call.amount_out[2].value = call.amount_out[1].value

\* C21 amended: doubling both reserves never lowers the amount out and gives at
\* most twice the amount out plus one, as far as both calls return; the two are
\* equal for the amount 0.
C21_DoubledReservesBounds ==
    (/\ call.fn = "get_v2_amount_out"
     /\ call.pc = "done"
     /\ call.amount_out[1].some
     /\ call.amount_out[2].some) =>
        /\ call.amount_out[1].value <= call.amount_out[2].value
        /\ call.amount_out[2].value <= 2 * call.amount_out[1].value + 1
        /\ call.amount_in = 0 => call.amount_out[2] = call.amount_out[1]

\* the amount 1 gave 1 on reserves 1 and 4, and 2 on reserves 2 and 8
C21_Witness ==
    /\ call.fn = "get_v2_amount_out"
    /\ call.pc = "done"
    /\ call.amount_in = 1
    /\ call.reserve_in = 1
    /\ call.reserve_out = 4
    /\ call.amount_out = <<Some(1), Some(2)>>

\* C22: calculate_next_block_base_fee(used, limit, base) returns f + j with j in
\* 0..8, where target = max(limit / 2, 1) and f is base plus
\* (base * (used - target) / target) / 8 when used > target and base minus
\* (base * (target - used) / target) / 8 otherwise; so for used = target the result
\* less the jitter is base, and the subtraction never goes below zero.
C22_NextBaseFee ==
    (call.fn = "calculate_next_block_base_fee" /\ call.pc = "done") =>
        LET used == call.gas_used
            base == call.base_fee_per_gas
            target == IF call.gas_limit \div 2 >= 1 THEN call.gas_limit \div 2 ELSE 1
            f == IF used > target
                 THEN base + ((base * (used - target)) \div target) \div 8
                 ELSE base - ((base * (target - used)) \div target) \div 8
        IN  /\ call.seed \in 0..8
            /\ f >= 0
            /\ call.result = Some(f + call.seed)
            /\ used = target => call.result.value - call.seed = base

\* a block that used nothing of its limit of 2 lowered the base fee 16 to 14, and
\* the jitter 8 was added
C22_Witness ==
    /\ call.fn = "calculate_next_block_base_fee"
    /\ call.pc = "done"
    /\ call.gas_used = 0
    /\ call.gas_limit = 2
    /\ call.base_fee_per_gas = 16
    /\ call.seed = 8
    /\ call.result = Some(22)

\* C23: after any sequence of load_all_pools runs that starts from an empty cache,
\* the ids of the cache rows are unique and without gaps (the first pool has id 0,
\* every further one the greatest id so far plus one), the rows are in
\* non-decreasing order of creation block, and a run only appends rows whose id is
\* greater than the last id present when it started.
C23_CacheIdsGapFree ==
    call.fn = "load_all_pools" =>
        /\ \A i \in 1..Len(call.cache) : call.cache[i].id = i - 1
        /\ \A i \in 1..Len(call.cache) - 1 :
               call.cache[i].block_number <= call.cache[i + 1].block_number
        /\ Len(call.before) <= Len(call.cache)
        /\ SubSeq(call.cache, 1, Len(call.before)) = call.before
        /\ \A i \in Len(call.before) + 1..Len(call.cache) :
               call.cache[i].id > call.last_id

\* a second run appended rows to a cache that held rows, after a request of the
\* first run had failed
C23_Witness ==
    /\ call.fn = "load_all_pools"
    /\ call.runs = 2
    /\ call.before # <<>>
    /\ Len(call.cache) > Len(call.before) + 1
    /\ call.last_id >= 0

\* C24: fetch_token_info on an unknown address never fails because of what the
\* token answers: every one of name(), symbol(), decimals() that fails, answers
\* nothing or does not decode leaves its default ("Unknown", "UNK", 18), the
\* metadata built is registered and returned, and a fetch of a registered address
\* returns the registered metadata without a call.
C24_FetchNeverFails ==
    (call.fn = "fetch_token_info" /\ call.pc = "done") =>
        /\ call.returned = "Ok"
        /\ call.result = Some(call.tokens[call.address])
        /\ call.known => call.calls = 0
        /\ ~call.known =>
               /\ call.calls = 3
               /\ call.answers[1].kind # "string" => call.result.value.name = "Unknown"
               /\ call.answers[2].kind # "string" => call.result.value.symbol = "UNK"
               /\ call.answers[3].kind # "uint" => call.result.value.decimals = 18

\* C25: a price refresh never waits for the writer lock of the registry while it
\* holds the reader lock itself, so it always completes and every lock request of
\* the registry's users is granted in the end.
C25_NoWriteRequestUnderRead ==
    call.fn = "update_prices_from_chainlink" =>
        ~(RefreshReads(call) /\ call.pc = "wait_write")

\* C26: in every run of BatchSandwich::simulate the frontrun and the backrun are
\* called under the block's base fee and every victim transaction under base fee 0
C26_VictimsReplayedAtZeroBaseFee ==
    call.fn = "simulate" =>
        \A t \in SimTasks : \A k \in 1..Len(call.runs[t].trace) :
            LET e == call.runs[t].trace[k]
            IN /\ e.step \in {"frontrun", "backrun"} => e.basefee = call.base_fee
               /\ e.step = "victim" => e.basefee = 0

\* the distinct victim hashes of a batch in the order of their first occurrence
FirstOccurrence(sandwiches, h) ==
    CHOOSE i \in 1..Len(sandwiches) :
        /\ sandwiches[i].tx_hash = h
        /\ \A j \in 1..(i - 1) : sandwiches[j].tx_hash # h

DistinctVictims(sandwiches) ==
    CHOOSE v \in UNION {[1..n -> VictimHashes] : n \in 0..Len(sandwiches)} :
        /\ {v[k] : k \in 1..Len(v)} = {sandwiches[i].tx_hash : i \in 1..Len(sandwiches)}
        /\ \A k, l \in 1..Len(v) :
               k < l => FirstOccurrence(sandwiches, v[k]) < FirstOccurrence(sandwiches, v[l])

\* the steps of a complete run of simulate on simulator s
StepsInOrder(sandwiches, s) ==
    LET v == DistinctVictims(sandwiches)
        step(name, tx) == [step |-> name, tx |-> tx, simulator |-> s]
    IN <<step("reserves_before", "none"), step("frontrun", "none")>>
       \o [k \in 1..Len(v) |-> step("victim", v[k])]
       \o <<step("reserves_after", "none"), step("backrun", "none")>>

\* C27: in every run of BatchSandwich::simulate the steps taken so far are the first
\* steps of: pre-trade reserves, frontrun, every distinct victim once in the order
\* of first occurrence, post-trade reserves and balances, backrun; a run that
\* returns Ok has taken them all; every step is on the run's own simulator, which
\* no other run touches
C27_SimulateStepOrder ==
    call.fn = "simulate" =>
        \A t \in SimTasks :
            LET run == call.runs[t]
                all == StepsInOrder(call.batch.sandwiches, run.simulator)
                done == [k \in 1..Len(run.trace) |->
                            [step |-> run.trace[k].step, tx |-> run.trace[k].tx,
                             simulator |-> run.trace[k].simulator]]
            IN /\ Len(done) <= Len(all)
               /\ done = SubSeq(all, 1, Len(done))
               /\ run.pc \in {"balances", "ok"} => done = all
               /\ run.pc # "new" => call.simulators[run.simulator].touched_by = {t}

C27_Witness ==
    /\ call.fn = "simulate"
    /\ Len(call.batch.sandwiches) = 1
    /\ \A t \in SimTasks :
           /\ call.runs[t].pc = "ok"
           /\ Len(call.runs[t].trace) = 5
    /\ call.runs[1].simulator # call.runs[2].simulator

\* C28: a candidate of Sandwich::optimize whose simulation fails contributes
\* revenue 0, gas 0 and empty calldata, and no failed simulation makes optimize
\* abort: the search goes on with the other candidates and rounds
C28_FailedSimulationCountsZero ==
    call.fn = "optimize" =>
        /\ call.pc # "abort"
        /\ \A idx \in 0..intervals :
               (/\ call.pc = "tasks"
                /\ idx \in call.failed) =>
                   /\ call.results[idx].state = "finished"
                   /\ call.results[idx].revenue = 0
                   /\ call.results[idx].front_gas_used = 0
                   /\ call.results[idx].back_gas_used = 0
                   /\ call.results[idx].front_calldata = <<>>
                   /\ call.results[idx].back_calldata = <<>>

\* C29: after every round of Sandwich::optimize, with inputs[0..5] the six simulated
\* amounts and idx an index of the round's maximum revenue, the next interval is
\* [inputs[max(idx - 1, 0)], inputs[min(idx + 1, 5)]], so it lies inside the
\* interval of the round and is not wider
C29_NextIntervalInsideCurrent ==
    (call.fn = "optimize" /\ call.pc = "loop" /\ call.round >= 1) =>
        /\ \E idx \in 0..intervals :
               /\ \A j \in 0..intervals : call.results[j].revenue <= call.results[idx].revenue
               /\ call.min_amount_in = call.inputs[IF idx = 0 THEN 0 ELSE idx - 1]
               /\ call.max_amount_in = call.inputs[IF idx = intervals THEN intervals ELSE idx + 1]
        /\ call.inputs[0] <= call.min_amount_in
        /\ call.max_amount_in <= call.inputs[intervals]
        /\ call.max_amount_in - call.min_amount_in <= call.inputs[intervals] - call.inputs[0]

\* C30: no failure while an event is handled ends the main loop of
\* run_sandwich_strategy: after a Block event whose body cannot be fetched or is
\* absent, and after a PendingTransaction event whose RPC calls fail, the loop is
\* running and takes the next event
C30_LoopSurvivesEventFailures == pc # "aborted"

\* C31: with the node producing blocks and pending transactions for ever and at
\* most MaxFailures failures (a failed subscription, a failed lookup, the end of a
\* stream), Block events and PendingTransaction events are sent to the channel
\* again and again
C31_StreamsKeepSending ==
    /\ []<>(call.fn = "streams" /\ \E i \in 1..Len(call.queue) : call.queue[i] = "block")
    /\ []<>(call.fn = "streams" /\ \E i \in 1..Len(call.queue) : call.queue[i] = "pending")

\* C32: when the reserves query of a sandwich's recorded variant fails, the query of
\* the other variant on the same address is tried and its result is used; the
\* sandwich has no reserves, and no trade entry in the frontrun, only if both fail
C32_ReservesFallback ==
    (call.fn = "reserves_before" /\ call.pc = "encoded") =>
        \A k \in 1..Len(call.sandwiches) :
            LET s == call.sandwiches[k]
                own == call.answers[s.target_pair][s.version]
                other == call.answers[s.target_pair][OtherVariant(s.version)]
            IN  /\ (~own /\ other) =>
                       /\ call.reserves_before[s.target_pair] =
                              Some(ReservesOf(s.target_pair, OtherVariant(s.version)))
                       /\ k \in call.entries
                /\ (k \notin call.entries) => (~own /\ ~other)
                /\ (~call.reserves_before[s.target_pair].some) => (~own /\ ~other)

\* a V2 sandwich whose getReserves failed got the reserves of the V3 query and an
\* entry, next to a sandwich whose two queries failed and that has no entry
C32_Witness ==
    /\ call.fn = "reserves_before"
    /\ call.pc = "encoded"
    /\ Len(call.sandwiches) = 2
    /\ call.sandwiches[1].version = "UniswapV2"
    /\ ~call.answers[call.sandwiches[1].target_pair]["UniswapV2"]
    /\ call.reserves_before[call.sandwiches[1].target_pair] =
           Some(ReservesOf(call.sandwiches[1].target_pair, "UniswapV3"))
    /\ call.entries = {1}

\* C33: for every ceiling and every revenue of every simulated candidate (a failed
\* simulation counts as 0) the search loop of Sandwich::optimize ends: the step
\* (max - min) / 5 gets within the tolerance and optimize returns
C33_SearchTerminates == <>(optimize_call.pc = "done")

\* optimize returned after rounds that moved both ends of the interval
C33_Witness ==
    /\ optimize_call.pc = "done"
    /\ optimize_call.min_amount_in > 0
    /\ optimize_call.max_amount_in < MaxCeiling

\* C34: in every interleaving of the subscription task, the fallback poller and the
\* orchestrator, the block number the orchestrator adopts never decreases and the
\* age subtraction of the pruning never aborts
C34_HeadNeverDecreases ==
    [][call.fn = "producers" =>
           /\ call'.new_block >= call.new_block
           /\ ~call'.aborted]_vars

\* C35: BatchSandwich::simulate returns Ok or Err and never aborts, for every batch
\* of at least one sandwich, a batch with an empty swap_info_vec included
C35_SimulateNeverAborts ==
    call.fn = "simulate" => \A t \in SimTasks : call.runs[t].pc # "abort"

C37_SwapInfoWellFormed ==
    (call.fn = "extract_swap_info" /\ call.pc = "done") =>
        \A k \in 1..Len(call.result) :
            LET info == call.result[k]
                pool == pools_map[info.target_pair]
            IN  /\ is_main_currency(info.main_currency)
                /\ info.target_token # info.main_currency
                /\ {info.main_currency, info.target_token} = {pool.token0, pool.token1}
                /\ info.token0_is_main = (info.main_currency = pool.token0)

\* C38: main_dish_v3 never simulates, builds or sends a bundle for a victim hash
\* that is not a key of pending_txs, even when promising_sandwiches still holds an
\* entry of a victim that left pending_txs after the last Block event: such an
\* ingredient is skipped before the simulation, so the step cannot abort in it and
\* sends nothing
C38_OnlyPendingVictims ==
    [][(pc = "dish" /\ Head(queue).tx_hash \notin DOMAIN pending_txs) =>
           /\ pc' # "aborted"
           /\ last'.kind = "dish"
           /\ last'.tx_hash = Head(queue).tx_hash
           /\ last'.stage = "not_pending"
           /\ sent'[Head(queue).tx_hash] <= sent[Head(queue).tx_hash]]_vars

C38_Witness ==
    /\ watch
    /\ last.kind = "dish"
    /\ last.stage = "not_pending"
    /\ last.tx_hash \in DOMAIN promising_sandwiches
    /\ last.tx_hash \notin DOMAIN pending_txs

\* C39: pool discovery loses nothing to a failed log request: whatever chunks
\* failed in the runs so far, the next run starts no later than the first block
\* that was not scanned, i.e. every pool created in a block up to the block of the
\* last cached pool is in the cache
C39_FailedChunkRescanned ==
    (call.fn = "load_all_pools" /\ call.cache # <<>>) =>
        \A block \in 1..call.cache[Len(call.cache)].block_number :
            \A k \in 1..call.chain[block] :
                \E i \in 1..Len(call.cache) : call.cache[i].address = <<block, k>>

\* C40: when Sandwich.optimize returns a result that is not zeroed, its amount_in,
\* max_revenue, front and back gas used and front and back calldata all come from
\* one simulated candidate, and max_revenue is at least the revenue of every
\* candidate simulated in every round of the call: in every round the kept best is
\* left as it was or replaced whole by one result of the round, it is at least
\* every revenue of the round and never decreases, and the returned result is the
\* kept best
C40_ResultFromOneCandidate ==
    [][call.fn = "optimize" =>
           /\ call'.max_revenue >= call.max_revenue
           /\ (call.pc = "tasks" /\ call'.pc = "loop") =>
                  /\ \A idx \in 0..intervals :
                         call.results[idx].revenue <= call'.max_revenue
                  /\ \/ /\ call'.optimized_in = call.optimized_in
                        /\ call'.max_revenue = call.max_revenue
                        /\ call'.max_front_gas_used = call.max_front_gas_used
                        /\ call'.max_back_gas_used = call.max_back_gas_used
                        /\ call'.max_front_calldata = call.max_front_calldata
                        /\ call'.max_back_calldata = call.max_back_calldata
                     \/ \E idx \in 0..intervals :
                            /\ call'.optimized_in = call.results[idx].amount_in
                            /\ call'.max_revenue = call.results[idx].revenue
                            /\ call'.max_front_gas_used = call.results[idx].front_gas_used
                            /\ call'.max_back_gas_used = call.results[idx].back_gas_used
                            /\ call'.max_front_calldata = call.results[idx].front_calldata
                            /\ call'.max_back_calldata = call.results[idx].back_calldata
           /\ (call'.pc = "done" /\ call'.result # ZeroedSandwich) =>
                  call'.result = [amount_in |-> call.optimized_in,
                                  max_revenue |-> call.max_revenue,
                                  front_gas_used |-> call.max_front_gas_used,
                                  back_gas_used |-> call.max_back_gas_used,
                                  front_calldata |-> call.max_front_calldata,
                                  back_calldata |-> call.max_back_calldata]]_vars

\* a call of two rounds returns a best that a later candidate equalled
C40_Witness ==
    /\ call.fn = "optimize"
    /\ call.pc = "done"
    /\ call.round = 2
    /\ call.result # ZeroedSandwich
    /\ \E idx \in 0..intervals :
           /\ call.results[idx].revenue = call.result.max_revenue
           /\ call.results[idx].amount_in # call.result.amount_in
====
